---- MODULE Spec2Model ----
(***************************************************************************)
(* Matching engine of the ATS backend (backend/app/services/matcher.py)    *)
(* with the lazily loaded embedding model it shares with the evaluator     *)
(* (backend/app/services/evaluator.py), and the bulk match handler of      *)
(* backend/app/main.py.                                                    *)
(*                                                                         *)
(* Python values are tagged records: None, Str(<<chars>>), Num(n),         *)
(* List(<<values>>), Dict(function), DateStr(y, m) (a string dateutil      *)
(* parses to that year and month).  A raised exception is the value Raise. *)
(* Floats are exact rationals n/d with d > 0; the presentation             *)
(* rounding round(v, 4) yields an integer number of ten-thousandths.       *)
(* Weights are integers in hundredths (0.25 is 25).                        *)
(* Embeddings are unit vectors of dimension one (+1 or -1), so that a dot  *)
(* product is -1, 0 or 1 and the mean of a list may be the zero vector.    *)
(***************************************************************************)
EXTENDS Integers, Sequences, FiniteSets, TLC

VARIABLES
    cv,          \* the CV record of the requests
    jd,          \* the JD record of the requests
    weights,     \* the caller's weights mapping (None or a Dict)
    emb,         \* the embedding model's encode: text -> unit vector
    today,       \* datetime.utcnow(), as [y, m]
    ticks,       \* months elapsed since the process started
    workers,     \* the worker threads serving requests
    _MODEL,      \* evaluator._MODEL: None or a model instance
    constructed, \* how many times SentenceTransformer(...) was entered
    instances,   \* the model instances the constructor returned
    loadFailed,  \* a construction has raised
    pc,          \* each worker's position in compute_match/_get_model
    local,       \* each worker's frame: the instance it constructed, or Raise
    afterFail,   \* each worker: its current call began after a failed load
    callDate,    \* each worker: the date its last result was computed at
    result,      \* each worker's last outcome of compute_match
    embedLog,    \* each worker's last call: the _embed calls it made
    defaultWeights, \* matcher.DEFAULT_WEIGHTS, the module-level dict
    cvs,         \* the CV list of the bulk request
    matchCalls,  \* how many times the bulk handler called the matcher
    results,     \* the bulk handler's list of results
    response,    \* the bulk handler's response
    history,     \* the events appended to the history
    parser,      \* which parser normalises: "cv" or "jd"
    parsed,      \* the record the LLM extraction returned, as it was returned
    detected_lang, \* the language detected in the raw text
    raw_text,    \* the raw text of the uploaded file
    record,      \* what normalize_cv / normalize_jd made of parsed, or raised
    service,     \* which extraction runs: "cv" (call_ollama_extract) or "jd"
    payload,     \* payload["prompt"], as the parts it is made of
    attempts,    \* the loop counter of the extraction
    last_exc,    \* the last exception the extraction caught
    sent,        \* the requests posted to the LLM: prompt and outcome
    extracted,   \* what the extraction returned or raised
    _SESSIONS,   \* kpi_chat._SESSIONS: session id -> session
    answered,    \* each KPI session: the questions the LLM answered, in order
    kpiCall,     \* the last call of the KPI chat service
    reply,       \* what that call returned or raised
    USERS,       \* main.USERS: username -> password, roles, display name
    SESSIONS,    \* main.SESSIONS: token -> username
    issued,      \* how many tokens uuid4 has given
    authResponse, \* the response to the last login or user request
    encoder,     \* which sentence encoder the evaluator has loaded
    evalCall,    \* the arguments of evaluate_parsing
    evaluation   \* what evaluate_parsing returned or raised

bulkVars == <<cvs, matchCalls, results, response, history>>

parseVars == <<parser, parsed, detected_lang, raw_text, record>>

extractVars == <<service, payload, attempts, last_exc, sent, extracted>>

kpiVars == <<_SESSIONS, answered, kpiCall, reply>>

authVars == <<USERS, SESSIONS, issued, authResponse>>

evalVars == <<encoder, evalCall, evaluation>>

\* the state of the services beside the matcher
svcVars == <<parseVars, extractVars, kpiVars, authVars, evalVars>>

vars == <<cv, jd, weights, emb, today, ticks, workers, _MODEL, constructed,
          instances, loadFailed, pc, local, afterFail, callDate, result, embedLog,
          defaultWeights, bulkVars, svcVars>>

---------------------------------------------------------------------------
(* Python values *)

None == [t |-> "None"]
Raise == [t |-> "raise"]
Str(s) == [t |-> "str", v |-> s]
Num(n) == [t |-> "int", v |-> n]
List(l) == [t |-> "list", v |-> l]
Dict(f) == [t |-> "dict", v |-> f]
DateStr(year, month) == [t |-> "date", y |-> year, m |-> month]
EmptyDict == Dict(<<>>)

IsRaise(x) == x.t = "raise"

\* bool(x)
Truthy(x) ==
    CASE x.t = "None" -> FALSE
      [] x.t = "str"  -> x.v # <<>>
      [] x.t = "int"  -> x.v # 0
      [] x.t = "list" -> x.v # <<>>
      [] x.t = "dict" -> DOMAIN x.v # {}
      [] OTHER        -> TRUE

\* a or b
Or(a, b) == IF Truthy(a) THEN a ELSE b

\* d.get(k, dflt); AttributeError when d is not a dict
DictGet(d, k, dflt) ==
    IF d.t # "dict" THEN Raise
    ELSE IF k \in DOMAIN d.v THEN d.v[k] ELSE dflt

---------------------------------------------------------------------------
(* Python floats, as exact rationals n/d with d > 0 *)

Rat(num, den) == [t |-> "float", n |-> num, d |-> den]
RatAdd(a, b) == Rat(a.n * b.d + b.n * a.d, a.d * b.d)
RatScale(k, a) == Rat(k * a.n, a.d)
RatDiv(a, k) == Rat(a.n, a.d * k)
RatLe(a, b) == a.n * b.d <= b.n * a.d
RatEq(a, b) == a.n * b.d = b.n * a.d
RatMin(a, b) == IF RatLe(a, b) THEN a ELSE b
RatMax(a, b) == IF RatLe(a, b) THEN b ELSE a

\* round(v, 4), in ten-thousandths (ties to even)
Round4(a) ==
    LET x == a.n * 10000
        q == x \div a.d
        r == x % a.d
    IN  IF 2 * r < a.d THEN q
        ELSE IF 2 * r > a.d THEN q + 1
        ELSE IF q % 2 = 0 THEN q ELSE q + 1

---------------------------------------------------------------------------
(* matcher.py: small utils *)

DEFAULT_WEIGHTS ==
    [title |-> 25, skills |-> 25, certifications |-> 15,
     experience |-> 20, location |-> 5]

Dims == {"title", "skills", "certifications", "experience", "location"}

IsSpace(c) == c \in {" ", "\t"}

LowerChar(c) ==
    CASE c = "A" -> "a" [] c = "B" -> "b" [] c = "C" -> "c" [] OTHER -> c

Lower(s) == [i \in DOMAIN s |-> LowerChar(s[i])]

RECURSIVE DropSpaces(_)
DropSpaces(s) ==
    IF s # <<>> /\ IsSpace(Head(s)) THEN DropSpaces(Tail(s)) ELSE s

\* re.sub(r"\s+", " ", s)
RECURSIVE CollapseSpaces(_)
CollapseSpaces(s) ==
    IF s = <<>> THEN <<>>
    ELSE IF IsSpace(Head(s)) THEN <<" ">> \o CollapseSpaces(DropSpaces(Tail(s)))
    ELSE <<Head(s)>> \o CollapseSpaces(Tail(s))

\* str.strip() of a string whose whitespace runs are single spaces
Strip(s) ==
    LET a == IF s # <<>> /\ s[1] = " " THEN Tail(s) ELSE s
    IN  IF a # <<>> /\ a[Len(a)] = " " THEN SubSeq(a, 1, Len(a) - 1) ELSE a

\* _normspace(s): a Str, or Raise (re.sub on a truthy value that is no str)
_normspace(s) ==
    IF IsRaise(s) THEN Raise
    ELSE IF ~Truthy(s) THEN Str(<<>>)
    ELSE IF s.t = "str" THEN Str(Strip(CollapseSpaces(s.v)))
    ELSE Raise

\* the loop of _lower_dedup over the remaining items, given what is kept so far
RECURSIVE LowerDedupLoop(_, _)
\* one pass of the loop: n is _normspace(x)
LowerDedupStep(items, out, n) ==
    IF IsRaise(n) THEN Raise
    ELSE IF Lower(n.v) # <<>> /\ \A i \in DOMAIN out : out[i] # Lower(n.v)
    THEN LowerDedupLoop(Tail(items), Append(out, Lower(n.v)))
    ELSE LowerDedupLoop(Tail(items), out)
LowerDedupLoop(items, out) ==
    IF items = <<>> THEN List(out)
    ELSE LowerDedupStep(items, out, _normspace(Head(items)))

\* _lower_dedup(items): a List of lower-cased texts, or Raise
_lower_dedup(items) ==
    IF IsRaise(items) THEN Raise
    ELSE IF ~Truthy(items) THEN List(<<>>)
    ELSE IF items.t = "list" THEN LowerDedupLoop(items.v, <<>>)
    ELSE IF items.t = "str"
         THEN LowerDedupLoop([i \in DOMAIN items.v |-> Str(<<items.v[i]>>)], <<>>)
    ELSE Raise

\* m.encode(texts, normalize_embeddings=True) of the loaded model: one unit
\* vector per text, e's for the texts e distinguishes
_embed(e, texts) ==
    [i \in DOMAIN texts |-> IF texts[i] \in DOMAIN e THEN e[texts[i]] ELSE 1]

\* float(np.dot(vec_a, vec_b))
_cos(vec_a, vec_b) == vec_a * vec_b

RECURSIVE SumSeq(_)
SumSeq(s) == IF s = <<>> THEN 0 ELSE Head(s) + SumSeq(Tail(s))

\* _mean_pool(vectors): the mean renormalised, the zero mean left as it is
_mean_pool(vectors) ==
    IF Len(vectors) = 0 THEN Raise
    ELSE LET total == SumSeq(vectors)
         IN  IF total = 0 THEN 0 ELSE IF total > 0 THEN 1 ELSE -1

---------------------------------------------------------------------------
(* matcher.py: component scorers.  Each text scorer yields [score, calls]: *)
(* the score (a float, or Raise) and the texts of each _embed call it made *)

Scored(s, c) == [score |-> s, calls |-> c]

DictOrRaise(b) == IF b.t # "dict" THEN Raise ELSE b

\* BasicsIn without the `or {}` after .get("basics")
BasicsIn_NoDefault(p) ==
    IF p.t # "dict" THEN Raise
    ELSE DictOrRaise(DictGet(p, "basics", None))

\* (p.get("basics") or {}) of p == (j.get(outer) or {})
BasicsIn(p) ==
    IF p.t # "dict" THEN Raise
    ELSE DictOrRaise(Or(DictGet(p, "basics", None), EmptyDict))

\* ((j.get(outer) or {}).get("basics") or {}): a Dict, or Raise
BasicsOf(j, outer) == BasicsIn(Or(DictGet(j, outer, None), EmptyDict))

NormGet(b, key) ==
    IF IsRaise(b) THEN Raise ELSE _normspace(DictGet(b, key, Str(<<>>)))

\* _normspace(((j.get(outer) or {}).get("basics") or {}).get(key, ""))
BasicsField(j, outer, key) == NormGet(BasicsOf(j, outer), key)

\* TitleCos with `and` for the `or` of `if not cv_title or not jd_title`
TitleCos_And(e, cv_title, jd_title) ==
    IF IsRaise(cv_title) \/ IsRaise(jd_title) THEN Scored(Raise, <<>>)
    ELSE IF cv_title.v = <<>> /\ jd_title.v = <<>> THEN Scored(Rat(0, 1), <<>>)
    ELSE Scored(Rat(_cos(_embed(e, <<cv_title.v, jd_title.v>>)[1],
                         _embed(e, <<cv_title.v, jd_title.v>>)[2]), 1),
                <<<<cv_title.v, jd_title.v>>>>)

\* _title_similarity from `if not cv_title or not jd_title` on
TitleCos(e, cv_title, jd_title) ==
    IF IsRaise(cv_title) \/ IsRaise(jd_title) THEN Scored(Raise, <<>>)
    ELSE IF cv_title.v = <<>> \/ jd_title.v = <<>> THEN Scored(Rat(0, 1), <<>>)
    ELSE Scored(Rat(_cos(_embed(e, <<cv_title.v, jd_title.v>>)[1],
                         _embed(e, <<cv_title.v, jd_title.v>>)[2]), 1),
                <<<<cv_title.v, jd_title.v>>>>)

_title_similarity(e, cv_json, jd_json) ==
    TitleCos(e, BasicsField(cv_json, "profile", "current_title"),
                BasicsField(jd_json, "job_profile", "title"))

\* _skills_similarity and _certs_similarity from `if not cv_sk or not jd_sk` on
PooledCos(e, cv_sk, jd_sk) ==
    IF IsRaise(cv_sk) \/ IsRaise(jd_sk) THEN Scored(Raise, <<>>)
    ELSE IF cv_sk.v = <<>> \/ jd_sk.v = <<>> THEN Scored(Rat(0, 1), <<>>)
    ELSE Scored(Rat(_cos(_mean_pool(_embed(e, cv_sk.v)),
                         _mean_pool(_embed(e, jd_sk.v))), 1),
                <<cv_sk.v, jd_sk.v>>)

_skills_similarity(e, cv_json, jd_json) ==
    PooledCos(e, _lower_dedup(DictGet(cv_json, "skills", None)),
                 _lower_dedup(DictGet(jd_json, "skills", None)))

_certs_similarity(e, cv_json, jd_json) ==
    PooledCos(e, _lower_dedup(DictGet(cv_json, "certifications", None)),
                 _lower_dedup(DictGet(jd_json, "required_certifications", None)))

\* _to_date_or_none(s): a datetime, or None
_to_date_or_none(s) ==
    IF ~Truthy(s) THEN None
    ELSE IF s.t = "date" THEN [t |-> "datetime", y |-> s.y, m |-> s.m]
    ELSE None

Positive(months) == IF months > 0 THEN months ELSE 0

\* the months an entry adds from its dates: s its start, e_ its end or today
DateMonths(s, e_) ==
    IF Truthy(s) THEN Num(Positive((e_.y - s.y) * 12 + (e_.m - s.m))) ELSE Num(0)

\* MonthsOf without the `continue`: the dates are counted on top of the duration
MonthsOf_NoContinue(e, dm, now) ==
    IF dm.t = "int" /\ dm.v >= 0
    THEN Num(dm.v + DateMonths(_to_date_or_none(DictGet(e, "start_date", None)),
                               Or(_to_date_or_none(DictGet(e, "end_date", None)),
                                  [t |-> "datetime", y |-> now.y, m |-> now.m])).v)
    ELSE DateMonths(_to_date_or_none(DictGet(e, "start_date", None)),
                    Or(_to_date_or_none(DictGet(e, "end_date", None)),
                       [t |-> "datetime", y |-> now.y, m |-> now.m]))

\* one pass of the loop of _cv_experience_years: dm is e.get("duration_months")
MonthsOf(e, dm, now) ==
    IF dm.t = "int" /\ dm.v >= 0 THEN Num(dm.v)
    ELSE DateMonths(_to_date_or_none(DictGet(e, "start_date", None)),
                    Or(_to_date_or_none(DictGet(e, "end_date", None)),
                       [t |-> "datetime", y |-> now.y, m |-> now.m]))

\* the months entry e adds, or Raise (e.get on an entry that is no dict)
EntryMonths(e, now) ==
    IF e.t # "dict" THEN Raise
    ELSE MonthsOf(e, DictGet(e, "duration_months", None), now)

PlusMonths(h, r) == IF IsRaise(h) \/ IsRaise(r) THEN Raise ELSE Num(h.v + r.v)

RECURSIVE TotalMonths(_, _)
TotalMonths(entries, now) ==
    IF entries = <<>> THEN Num(0)
    ELSE PlusMonths(EntryMonths(Head(entries), now), TotalMonths(Tail(entries), now))

\* ClampYears without the min(40.0, ...)
ClampYears_NoCap(total_months) ==
    IF IsRaise(total_months) THEN Raise
    ELSE RatMax(Rat(0, 1), Rat(total_months.v, 12))

\* yrs = total_months / 12.0; max(0.0, min(40.0, yrs))
ClampYears(total_months) ==
    IF IsRaise(total_months) THEN Raise
    ELSE RatMax(Rat(0, 1), RatMin(Rat(40, 1), Rat(total_months.v, 12)))

ExperienceOf(l, now) ==
    IF l.t # "list" THEN Raise ELSE ClampYears(TotalMonths(l.v, now))

\* _cv_experience_years(cv_json) at date now: a number of years, or Raise
_cv_experience_years(cv_json, now) ==
    ExperienceOf(Or(DictGet(cv_json, "experience", None), List(<<>>)), now)

\* float(jd_req) if jd_req is not None else 0.0, and 0.0 when float() raises;
\* a Str holds no digits, so float() of it raises
JdYears(jd_req) ==
    IF jd_req.t = "int" THEN jd_req.v ELSE 0

\* ExperienceRatio without the min(..., 1.0)
ExperienceRatio_Uncapped(cv_years, jd_years) ==
    IF IsRaise(cv_years) THEN Raise
    ELSE IF jd_years <= 0 THEN Rat(1, 1)
    ELSE RatDiv(cv_years, jd_years)

\* ExperienceRatio with `<` for the `<=` of `if jd_years <= 0.0`: a requirement
\* of 0 reaches the division
ExperienceRatio_Strict(cv_years, jd_years) ==
    IF IsRaise(cv_years) THEN Raise
    ELSE IF jd_years < 0 THEN Rat(1, 1)
    ELSE IF jd_years = 0 THEN Raise
    ELSE RatMin(RatDiv(cv_years, jd_years), Rat(1, 1))

\* _experience_score from `if jd_years <= 0.0` on
ExperienceRatio(cv_years, jd_years) ==
    IF IsRaise(cv_years) THEN Raise
    ELSE IF jd_years <= 0 THEN Rat(1, 1)
    ELSE RatMin(RatDiv(cv_years, jd_years), Rat(1, 1))

_experience_score(cv_json, jd_json, now) ==
    ExperienceRatio(_cv_experience_years(cv_json, now),
                    JdYears(DictGet(jd_json, "experience_required_years", None)))

\* needle in hay
Contains(hay, needle) ==
    \E i \in 0..(Len(hay) - Len(needle)) : SubSeq(hay, i + 1, i + Len(needle)) = needle

\* LocationIn with a floor of 2 characters for the 3 of `if len(loc) < 3`
LocationIn_Floor2(loc, jd_text) ==
    IF loc = <<>> \/ jd_text = <<>> THEN Rat(0, 1)
    ELSE IF Len(loc) < 2 THEN Rat(0, 1)
    ELSE IF Contains(jd_text, loc) THEN Rat(1, 1) ELSE Rat(0, 1)

\* _location_score from `if not loc or not jd_text` on (both lower-cased)
LocationIn(loc, jd_text) ==
    IF loc = <<>> \/ jd_text = <<>> THEN Rat(0, 1)
    ELSE IF Len(loc) < 3 THEN Rat(0, 1)
    ELSE IF Contains(jd_text, loc) THEN Rat(1, 1) ELSE Rat(0, 1)

LocationOf(loc, jd_text) ==
    IF IsRaise(loc) \/ IsRaise(jd_text) THEN Raise
    ELSE LocationIn(Lower(loc.v), Lower(jd_text.v))

_location_score(cv_json, jd_json) ==
    LocationOf(BasicsField(cv_json, "profile", "location"),
               _normspace(DictGet(jd_json, "jd_text", Str(<<>>))))

---------------------------------------------------------------------------
(* matcher.py: public API *)

\* MergeOver with the two mappings swapped: {**(weights or {}), **DEFAULT_WEIGHTS}
MergeOver_DefaultsWin(o) ==
    IF o.t # "dict" THEN Raise
    ELSE Dict([k \in Dims |-> defaultWeights[k]])

\* MergeOver reading each key as `o.get(k) or DEFAULT_WEIGHTS[k]`
MergeOver_ZeroIsUnset(o) ==
    IF o.t # "dict" THEN Raise
    ELSE Dict([k \in Dims |-> IF k \in DOMAIN o.v /\ o.v[k] # 0 THEN o.v[k]
                              ELSE defaultWeights[k]])

\* {**DEFAULT_WEIGHTS, **(weights or {})}, read at the five keys; Raise when
\* weights is truthy and no mapping
MergeOver(o) ==
    IF o.t # "dict" THEN Raise
    ELSE Dict([k \in Dims |-> IF k \in DOMAIN o.v THEN o.v[k] ELSE defaultWeights[k]])

MergedWeights(w_in) == MergeOver(Or(w_in, EmptyDict))

\* the five component scores of a call at date now
Scores(ti, sk, ce, ex, lo) ==
    [title |-> ti, skills |-> sk, certifications |-> ce, experience |-> ex, location |-> lo]

ComponentScores(e, cv_json, jd_json, now) ==
    Scores(_title_similarity(e, cv_json, jd_json).score,
           _skills_similarity(e, cv_json, jd_json).score,
           _certs_similarity(e, cv_json, jd_json).score,
           _experience_score(cv_json, jd_json, now),
           _location_score(cv_json, jd_json))

\* the _embed calls of a call, by the scorer that makes them
EmbedCalls(e, cv_json, jd_json) ==
    [title |-> _title_similarity(e, cv_json, jd_json).calls,
     skills |-> _skills_similarity(e, cv_json, jd_json).calls,
     certifications |-> _certs_similarity(e, cv_json, jd_json).calls]

\* the global score of compute_match from the merged weights and the scores
GlobalScore(w, scores) ==
    RatDiv(RatAdd(RatScale(w["title"], scores["title"]),
           RatAdd(RatScale(w["skills"], scores["skills"]),
           RatAdd(RatScale(w["certifications"], scores["certifications"]),
           RatAdd(RatScale(w["experience"], scores["experience"]),
                  RatScale(w["location"], scores["location"]))))), 100)

\* str(x) inside the f-string of candidate_name
FormatStr(x) ==
    IF x.t = "str" THEN x.v ELSE IF x.t = "None" THEN <<"N", "o", "n", "e">> ELSE <<"?">>

FullName(b) ==
    IF IsRaise(b) THEN Raise
    ELSE _normspace(Str(FormatStr(DictGet(b, "first_name", Str(<<>>))) \o <<" ">>
                        \o FormatStr(DictGet(b, "last_name", Str(<<>>)))))

CandidateName(cv_json) == FullName(BasicsOf(cv_json, "profile"))

\* the dict compute_match returns, or Raise when a step raised
MatchResult(w, scores, name, cv_title, jd_title) ==
    IF IsRaise(w) \/ IsRaise(name) \/ \E k \in Dims : IsRaise(scores[k])
    THEN Raise
    ELSE [t |-> "dict",
          candidate_name |-> name.v,
          cv_title |-> cv_title.v,
          jd_title |-> jd_title.v,
          scores |-> [k \in Dims |-> Round4(scores[k])],
          global_score |-> Round4(GlobalScore(w.v, scores))]

\* compute_match(cv_json, jd_json, weights) with the model loaded, at date now
compute_match(e, cv_json, jd_json, w_in, now) ==
    MatchResult(MergedWeights(w_in), ComponentScores(e, cv_json, jd_json, now),
                CandidateName(cv_json),
                BasicsField(cv_json, "profile", "current_title"),
                BasicsField(jd_json, "job_profile", "title"))

---------------------------------------------------------------------------
(* The requests' inputs: bounded families of CV/JD records and weights *)

MaxEntries == 2     \* experience entries of a CV of the experience family
MaxTicks == 2       \* months the clock advances
MaxLoads == 3       \* constructions of the model a run may start

Texts == {<<"a">>, <<"b">>}
Embs == [Texts -> {1, -1}]

StartDate == [y |-> 2, m |-> 12]
NextMonth(d) == IF d.m = 12 THEN [y |-> d.y + 1, m |-> 1] ELSE [y |-> d.y, m |-> d.m + 1]
RECURSIVE AddMonths(_, _)
AddMonths(d, k) == IF k = 0 THEN d ELSE AddMonths(NextMonth(d), k - 1)

CvFields == {"current_title", "location", "skills", "certifications", "experience"}
JdFields == {"title", "skills", "required_certifications",
             "experience_required_years", "jd_text"}
\* how an absent field is absent: its key is missing, it is None, it is empty,
\* it holds only blanks, or (title, location) its basics or its profile is None
Kinds == {"missing", "none", "empty", "blank", "nobasics", "noprofile"}

BlankStr == Str(<<" ", "\t">>)
Base ==
    [current_title |-> Str(<<" ", "a", " ">>),
     location |-> Str(<<"A", " ", "\t", "b", "C">>),
     cv_skills |-> List(<<Str(<<"A">>), Str(<<"a", " ">>), Str(<<"b">>)>>),
     cv_certs |-> List(<<Str(<<"a">>)>>),
     experience |-> List(<<Dict("duration_months" :> Num(18)),
                           Dict("start_date" :> DateStr(1, 11) @@ "end_date" :> None)>>),
     title |-> Str(<<"b">>),
     jd_skills |-> List(<<Str(<<"b">>)>>),
     jd_certs |-> List(<<Str(<<" ", "B">>)>>),
     required_years |-> Num(4),
     jd_text |-> Str(<<"x", " ", " ", "a", " ", "B", "c">>)]

AbsentStr(kind) ==
    CASE kind = "none" -> None [] kind = "empty" -> Str(<<>>) [] OTHER -> BlankStr
AbsentList(kind) ==
    CASE kind = "none" -> None [] kind = "empty" -> List(<<>>)
      [] OTHER -> List(<<BlankStr, None, Str(<<>>)>>)
AbsentEntries(kind) ==
    CASE kind = "none" -> None [] kind = "empty" -> List(<<>>)
      [] OTHER -> List(<<EmptyDict, Dict("start_date" :> None @@ "duration_months" :> None),
                         Dict("start_date" :> Str(<<"x">>) @@ "end_date" :> DateStr(2, 3))>>)
AbsentYears(kind) ==
    CASE kind = "none" -> None [] kind = "empty" -> Num(0) [] OTHER -> Str(<<"x">>)

KeyMissing(kind) == kind \in {"missing", "nobasics", "noprofile"}

\* the dict holding, for each key of keys, val[k], but for the keys of abs:
\* those are left out (a missing key) or hold absent[k]
Fields(keys, abs, kind, val, absent) ==
    Dict([k \in {x \in keys : ~(x \in abs /\ KeyMissing(kind))} |->
            IF k \in abs THEN absent[k] ELSE val[k]])

\* profile / job_profile: the basics dict b under kind, when some basics field is absent
Profile(b, someAbsent, kind) ==
    IF someAbsent /\ kind = "noprofile" THEN None
    ELSE IF someAbsent /\ kind = "nobasics" THEN Dict("basics" :> None)
    ELSE Dict("basics" :> b)

MkCV(abs, kind, entries) ==
    LET basics == Fields({"first_name", "last_name", "current_title", "location"}, abs, kind,
                    [first_name |-> Str(<<"a">>), last_name |-> Str(<<"b">>),
                     current_title |-> Base.current_title, location |-> Base.location],
                    [current_title |-> AbsentStr(kind), location |-> AbsentStr(kind)])
        top == Fields({"skills", "certifications", "experience"}, abs, kind,
                    [skills |-> Base.cv_skills, certifications |-> Base.cv_certs,
                     experience |-> entries],
                    [skills |-> AbsentList(kind), certifications |-> AbsentList(kind),
                     experience |-> AbsentEntries(kind)])
    IN  Dict(top.v @@ ("profile" :>
                Profile(basics, abs \cap {"current_title", "location"} # {}, kind)))

MkJD(abs, kind, years) ==
    LET basics == Fields({"title", "company"}, abs, kind,
                    [title |-> Base.title, company |-> Str(<<"c">>)],
                    [title |-> AbsentStr(kind)])
        top == Fields({"skills", "required_certifications", "experience_required_years",
                       "jd_text"}, abs, kind,
                    [skills |-> Base.jd_skills, required_certifications |-> Base.jd_certs,
                     experience_required_years |-> years, jd_text |-> Base.jd_text],
                    [skills |-> AbsentList(kind), required_certifications |-> AbsentList(kind),
                     experience_required_years |-> AbsentYears(kind),
                     jd_text |-> AbsentStr(kind)])
    IN  Dict(top.v @@ ("job_profile" :> Profile(basics, "title" \in abs, kind)))

\* experience entries: each of duration_months, start_date, end_date missing or given
OptKey(k, vals) == {<<>>} \cup {k :> v : v \in vals}
Entries ==
    {Dict(a @@ b @@ c) :
        a \in OptKey("duration_months", {Num(30)}),
        b \in OptKey("start_date", {DateStr(1, 11)}),
        c \in OptKey("end_date", {DateStr(2, 3), DateStr(1, 5)})}
\* entries whose duration_months is no count of months
OddEntries ==
    {Dict(a @@ b) :
        a \in {"duration_months" :> Num(-6)},
        b \in {<<>>, "start_date" :> DateStr(1, 11) @@ "end_date" :> DateStr(2, 3)}}
RECURSIVE SeqsUpTo(_, _)
SeqsUpTo(S, n) ==
    IF n = 0 THEN {<<>>}
    ELSE LET shorter == SeqsUpTo(S, n - 1)
         IN  shorter \cup {Append(q, x) : q \in {r \in shorter : Len(r) = n - 1}, x \in S}
YearsVals == {Num(0), Num(2), Num(10), Num(-1), None, Str(<<"x">>)}

\* CVs with one entry of a given duration, against requirements up to and
\* above the 40 years the CV's experience is clamped to
RatioMonths == {0, 36, 72, 479, 480, 492, 600}
RatioYears == {Num(3), Num(6), Num(40), Num(41)}
OneEntry(months) == List(<<Dict("duration_months" :> Num(months))>>)

\* CV locations of 2, 3 and 4 characters once normalised, and JD texts that
\* hold some of them
Locations ==
    {Str(<<"a", "b">>), Str(<<"A", "B", "c">>), Str(<<" ", "a", "\t", " ", "b", " ">>),
     Str(<<"a", " ", "b", "c">>), Str(<<"c", "b", "a">>), Str(<<"a", "b", " ">>)}
JdTexts ==
    {Str(<<"x", "a", "b", "c">>), Str(<<"A", " ", " ", "B", "C">>), Str(<<"a", "b">>),
     Str(<<"\t">>)}
\* record j with j[key] = val
SetField(j, key, val) == Dict([j.v EXCEPT ![key] = val])
\* record j with j[outer]["basics"][key] = val
SetBasic(j, outer, key, val) ==
    SetField(j, outer, SetField(j.v[outer], "basics",
                                SetField(j.v[outer].v["basics"], key, val)))

\* the caller's weights: None, {}, one key overridden, all five set
WeightChoices == {0, 200}
WeightVals ==
    {None, EmptyDict}
    \cup {Dict(k :> v) : k \in Dims, v \in WeightChoices}
    \cup {Dict([k \in Dims |-> 0]), Dict([k \in Dims |-> 2 * DEFAULT_WEIGHTS[k]])}

---------------------------------------------------------------------------
(* The process: worker threads serving match requests *)

Model(i) == [t |-> "model", id |-> i]
NoResult == [t |-> "noresult"]
NoCalls == [title |-> <<>>, skills |-> <<>>, certifications |-> <<>>]
Threads == {1, 2}

\* the state of the process as it starts, for given requests
Started(ws) ==
    /\ workers = ws
    /\ pc = [t \in Threads |-> "idle"]
    /\ local = [t \in Threads |-> None]
    /\ afterFail = [t \in Threads |-> FALSE]
    /\ callDate = [t \in Threads |-> None]
    /\ result = [t \in Threads |-> NoResult]
    /\ embedLog = [t \in Threads |-> NoCalls]
    /\ loadFailed = FALSE
    /\ defaultWeights = DEFAULT_WEIGHTS

NoResponse == [t |-> "noresponse"]

\* no bulk request
NoBulk ==
    /\ cvs = <<>>
    /\ matchCalls = 0
    /\ results = <<>>
    /\ response = NoResponse
    /\ history = <<>>

NoRecord == [t |-> "norecord"]

\* nothing to normalise
NoParse ==
    /\ parser = "cv"
    /\ parsed = None
    /\ detected_lang = Str(<<>>)
    /\ raw_text = Str(<<>>)
    /\ record = NoRecord

\* no extraction
NoExtract ==
    /\ service = "cv"
    /\ payload = <<>>
    /\ attempts = 0
    /\ last_exc = None
    /\ sent = <<>>
    /\ extracted = NoResult

\* kpi_chat.py: _SESSIONS = {} at import
NoKpi ==
    /\ _SESSIONS = <<>>
    /\ answered = <<>>
    /\ kpiCall = None
    /\ reply = NoResult

\* evaluate_parsing was not called
NoEval ==
    /\ encoder = 0
    /\ evalCall = None
    /\ evaluation = NoResult

\* main.py: USERS holds the bootstrap admin, SESSIONS = {} at import
Bootstrap ==
    /\ USERS = "admin" :> [password |-> "p", roles |-> <<"admin", "user">>,
                           display_name |-> "Admin"]
    /\ SESSIONS = <<>>
    /\ issued = 0
    /\ authResponse = [status |-> 0, detail |-> "", body |-> <<>>]

\* the other services at rest
NoServices ==
    /\ NoParse
    /\ NoExtract
    /\ NoKpi
    /\ Bootstrap
    /\ NoEval

\* evaluator.py: _MODEL = None at import
Unloaded ==
    /\ _MODEL = None
    /\ constructed = 0
    /\ instances = {}

\* the process with two workers, before anything was loaded
Init ==
    /\ Started(Threads)
    /\ NoServices
    /\ NoBulk
    /\ Unloaded
    /\ ticks = 0
    /\ today = StartDate
    /\ emb \in Embs
    /\ weights = None
    /\ \E abs \in {{}, {"current_title", "skills", "certifications"}} :
          cv = MkCV(abs, "missing", Base.experience)
    /\ jd = MkJD({}, "missing", Base.required_years)

\* does compute_match reach _embed, hence _get_model?
NeedsModel ==
    \E k \in DOMAIN NoCalls : EmbedCalls(emb, cv, jd)[k] # <<>>

\* a worker starts compute_match(cv, jd, weights)
Call(t) ==
    /\ pc[t] = "idle"
    /\ pc' = [pc EXCEPT ![t] = IF NeedsModel THEN "get_model" ELSE "score"]
    /\ afterFail' = [afterFail EXCEPT ![t] = loadFailed]
    /\ result' = [result EXCEPT ![t] = NoResult]
    /\ embedLog' = [embedLog EXCEPT ![t] = NoCalls]
    /\ local' = [local EXCEPT ![t] = None]
    /\ UNCHANGED <<svcVars, defaultWeights, bulkVars, cv, jd, weights, emb, today, ticks, workers, _MODEL, constructed,
                   instances, loadFailed, callDate>>

\* _get_model: the test `_MODEL is None`; when it is, the worker enters
\* SentenceTransformer(ST_MODEL_NAME)
_get_model(t) ==
    /\ pc[t] = "get_model"
    /\ IF _MODEL.t = "None"
       THEN /\ constructed < MaxLoads
            /\ constructed' = constructed + 1
            /\ local' = [local EXCEPT ![t] = Model(constructed + 1)]
            /\ pc' = [pc EXCEPT ![t] = "construct"]
       ELSE /\ pc' = [pc EXCEPT ![t] = "score"]
            /\ UNCHANGED <<constructed, local>>
    /\ UNCHANGED <<svcVars, defaultWeights, bulkVars, cv, jd, weights, emb, today, ticks, workers, _MODEL, instances,
                   loadFailed, afterFail, callDate, result, embedLog>>

\* the constructor returns a model
ConstructOk(t) ==
    /\ pc[t] = "construct"
    /\ instances' = instances \cup {local[t]}
    /\ pc' = [pc EXCEPT ![t] = "assign"]
    /\ UNCHANGED <<svcVars, defaultWeights, bulkVars, cv, jd, weights, emb, today, ticks, workers, _MODEL, constructed,
                   loadFailed, local, afterFail, callDate, result, embedLog>>

\* the constructor raises: _get_model, _embed and compute_match let it through
ConstructFail(t) ==
    /\ pc[t] = "construct"
    /\ loadFailed' = TRUE
    /\ local' = [local EXCEPT ![t] = Raise]
    /\ result' = [result EXCEPT ![t] = Raise]
    /\ pc' = [pc EXCEPT ![t] = "done"]
    /\ UNCHANGED <<svcVars, defaultWeights, bulkVars, cv, jd, weights, emb, today, ticks, workers, _MODEL, constructed,
                   instances, afterFail, callDate, embedLog>>

\* _MODEL = <the constructed model>
Assign(t) ==
    /\ pc[t] = "assign"
    /\ _MODEL' = local[t]
    /\ pc' = [pc EXCEPT ![t] = "score"]
    /\ UNCHANGED <<svcVars, defaultWeights, bulkVars, cv, jd, weights, emb, today, ticks, workers, constructed, instances,
                   loadFailed, local, afterFail, callDate, result, embedLog>>

\* what compute_match does once the model is there (or is not needed)
Scoring(t) ==
    /\ result' = [result EXCEPT ![t] = compute_match(emb, cv, jd, weights, today)]
    /\ embedLog' = [embedLog EXCEPT ![t] = EmbedCalls(emb, cv, jd)]
    /\ callDate' = [callDate EXCEPT ![t] = today]
    /\ pc' = [pc EXCEPT ![t] = "done"]

Score(t) ==
    /\ pc[t] = "score"
    /\ Scoring(t)
    /\ UNCHANGED <<svcVars, defaultWeights, bulkVars, cv, jd, weights, emb, today, ticks, workers, _MODEL, constructed,
                   instances, loadFailed, local, afterFail>>

\* the worker hands the outcome back and is free again
Return(t) ==
    /\ pc[t] = "done"
    /\ pc' = [pc EXCEPT ![t] = "idle"]
    /\ UNCHANGED <<svcVars, defaultWeights, bulkVars, cv, jd, weights, emb, today, ticks, workers, _MODEL, constructed,
                   instances, loadFailed, local, afterFail, callDate, result, embedLog>>

\* a month passes
Tick ==
    /\ ticks < MaxTicks
    /\ ticks' = ticks + 1
    /\ today' = NextMonth(today)
    /\ UNCHANGED <<svcVars, defaultWeights, bulkVars, cv, jd, weights, emb, workers, _MODEL, constructed, instances,
                   loadFailed, pc, local, afterFail, callDate, result, embedLog>>

Next ==
    \/ \E t \in workers : Call(t)
    \/ \E t \in workers : _get_model(t)
    \/ \E t \in workers : ConstructOk(t)
    \/ \E t \in workers : ConstructFail(t)
    \/ \E t \in workers : Assign(t)
    \/ \E t \in workers : Score(t)
    \/ \E t \in workers : Return(t)
    \/ Tick

Spec == Init /\ [][Next]_vars

---------------------------------------------------------------------------
(* compute_match as a function: one worker, the model loaded, the inputs   *)
(* drawn from the families                                                 *)

Loaded ==
    /\ _MODEL = Model(1)
    /\ constructed = 1
    /\ instances = {Model(1)}

\* every subset of the scored fields absent, in every way of being absent
InitAbsent ==
    /\ ticks = 0
    /\ weights = None
    /\ emb \in Embs
    /\ \E a \in SUBSET CvFields, b \in SUBSET JdFields, kind \in Kinds :
          /\ cv = MkCV(a, kind, Base.experience)
          /\ jd = MkJD(b, kind, Base.required_years)

\* every weights mapping, at most one field absent
InitWeights ==
    /\ ticks = 0
    /\ weights \in WeightVals
    /\ emb \in Embs
    /\ \E a \in {{}} \cup {{f} : f \in CvFields} :
          cv = MkCV(a, "missing", Base.experience)
    /\ jd = MkJD({}, "missing", Base.required_years)

\* every experience list and requirement, at every date
InitExperience ==
    /\ ticks \in 0..MaxTicks
    /\ weights = None
    /\ emb = [x \in Texts |-> 1]
    /\ \E l \in SeqsUpTo(Entries, MaxEntries) \cup {<<e>> : e \in OddEntries} :
          cv = MkCV({}, "missing", List(l))
    /\ \E y \in YearsVals, b \in {{}, {"experience_required_years"}} :
          jd = MkJD(b, "missing", y)

\* one entry of every duration against every requirement
InitRatio ==
    /\ ticks = 0
    /\ weights = None
    /\ emb = [x \in Texts |-> 1]
    /\ \E m \in RatioMonths : cv = MkCV({}, "missing", OneEntry(m))
    /\ \E y \in RatioYears : jd = MkJD({}, "missing", y)

\* every location against every JD text
InitLocation ==
    /\ ticks = 0
    /\ weights = None
    /\ emb = [x \in Texts |-> 1]
    /\ \E l \in Locations :
          cv = SetBasic(MkCV({}, "missing", Base.experience), "profile", "location", l)
    /\ \E x \in JdTexts :
          jd = SetField(MkJD({}, "missing", Base.required_years), "jd_text", x)

InitMatch ==
    /\ Started({1})
    /\ NoServices
    /\ NoBulk
    /\ Loaded
    /\ InitAbsent \/ InitWeights \/ InitExperience \/ InitRatio \/ InitLocation
    /\ today = AddMonths(StartDate, ticks)

\* Match merging the defaults into the caller's mapping instead of a new dict
Match_MergesInPlace(t) ==
    /\ pc[t] = "idle"
    /\ _MODEL.t = "model"
    /\ Scoring(t)
    /\ weights' = IF weights.t = "dict" THEN MergedWeights(weights) ELSE weights
    /\ UNCHANGED <<svcVars, defaultWeights, bulkVars, cv, jd, emb, today, ticks, workers, _MODEL,
                   constructed, instances, loadFailed, local, afterFail>>

\* compute_match(cv, jd, weights), the model being loaded
Match(t) ==
    /\ pc[t] = "idle"
    /\ _MODEL.t = "model"
    /\ Scoring(t)
    /\ UNCHANGED <<svcVars, defaultWeights, bulkVars, cv, jd, weights, emb, today, ticks, workers, _MODEL, constructed,
                   instances, loadFailed, local, afterFail>>

NextMatch == \E t \in workers : Match(t)

SpecMatch == InitMatch /\ [][NextMatch]_vars

---------------------------------------------------------------------------
(* Properties of the global score *)

\* the merged weights and the unrounded scores behind worker t's result
UsedWeights == MergedWeights(weights).v
ScoresOf(t) == ComponentScores(emb, cv, jd, callDate[t])
Returned(t) == t \in workers /\ result[t].t = "dict"

Term(w, s, D, k) == IF k \in D THEN RatScale(w[k], s[k]) ELSE Rat(0, 1)
Part(w, D, k) == IF k \in D THEN w[k] ELSE 0
\* sum of weight * score over the dimensions of D, in hundredths
WeightedSum(w, s, D) ==
    RatAdd(Term(w, s, D, "title"), RatAdd(Term(w, s, D, "skills"),
    RatAdd(Term(w, s, D, "certifications"), RatAdd(Term(w, s, D, "experience"),
           Term(w, s, D, "location")))))
\* sum of the weights of the dimensions of D, in hundredths
WeightTotal(w, D) ==
    Part(w, D, "title") + Part(w, D, "skills") + Part(w, D, "certifications")
    + Part(w, D, "experience") + Part(w, D, "location")
\* the weighted average of the scores of the dimensions of D (0.0 when their
\* weights add up to nothing)
WeightedAverage(w, s, D) ==
    IF WeightTotal(w, D) <= 0 THEN Rat(0, 1)
    ELSE RatDiv(WeightedSum(w, s, D), WeightTotal(w, D))

Applied(w) == {k \in Dims : w[k] > 0}

\* C1: the global score is the sum of weight * score over the dimensions whose
\* merged weight is > 0, divided by the sum of those weights
C1_GlobalIsWeightedAverage ==
    \A t \in Threads : Returned(t) =>
        result[t].global_score
            = Round4(WeightedAverage(UsedWeights, ScoresOf(t), Applied(UsedWeights)))

\* the caller's weights set exactly dimension k, to 0
ZeroesOnly(k) ==
    weights.t = "dict" /\ DOMAIN weights.v = {k} /\ weights.v[k] = 0

\* C2: with one dimension's weight set to 0 and the others left to their
\* defaults, the global score is the weighted average of the other four
C2_ZeroWeightLeavesAverageOfRest ==
    \A t \in Threads : \A k \in Dims : Returned(t) /\ ZeroesOnly(k) =>
        result[t].global_score
            = Round4(WeightedAverage(UsedWeights, ScoresOf(t), Dims \ {k}))

\* C3: with weights that are all non-negative, the global score is in [0.0, 1.0]
C3_GlobalInUnitInterval ==
    \A t \in Threads : Returned(t) /\ (\A k \in Dims : UsedWeights[k] >= 0) =>
        result[t].global_score >= 0 /\ result[t].global_score <= 10000

\* C4: each of the five component scores is in [0.0, 1.0]
C4_ComponentsInUnitInterval ==
    \A t \in Threads : Returned(t) =>
        \A k \in Dims : result[t].scores[k] >= 0 /\ result[t].scores[k] <= 10000

---------------------------------------------------------------------------
(* Properties of the lazily loaded model *)

\* C5: under any interleaving of the workers' first calls the constructor is
\* entered at most once, and a model once stored in _MODEL is never replaced
C5_ModelBuiltOnce ==
    [][constructed' <= 1 /\ (_MODEL.t = "model" => _MODEL' = _MODEL)]_vars

\* C6: two calls with the same cv, jd, weights and model return the same
\* result, whatever the dates they are made at
C6_SameInputsSameResult ==
    \A t1 \in Threads, t2 \in Threads :
        Returned(t1) /\ Returned(t2) => result[t1] = result[t2]

\* C7: a call during which the construction fails raises, and no call begun
\* after a failed construction enters the constructor again
C7_FailedLoadNotRetried ==
    \A t \in workers :
        /\ (IsRaise(local[t]) => IsRaise(result[t]))
        /\ (afterFail[t] => pc[t] \notin {"construct", "assign"})

---------------------------------------------------------------------------
(* Properties of absent fields *)

Lookup(d, k) == IF d.t = "dict" /\ k \in DOMAIN d.v THEN d.v[k] ELSE None
CvBasic(k) == Lookup(Lookup(Lookup(cv, "profile"), "basics"), k)
JdBasic(k) == Lookup(Lookup(Lookup(jd, "job_profile"), "basics"), k)

\* a field that holds no text: missing, None, empty or only whitespace
NoText(x) == ~Truthy(x) \/ (x.t = "str" /\ \A i \in DOMAIN x.v : x.v[i] \in {" ", "\t"})
\* a list field that holds no text
NoItems(l) == ~Truthy(l) \/ (l.t = "list" /\ \A i \in DOMAIN l.v : NoText(l.v[i]))

\* dimension k is absent: one of its two sides holds nothing
SideEmpty(k) ==
    CASE k = "title" -> NoText(CvBasic("current_title")) \/ NoText(JdBasic("title"))
      [] k = "skills" -> NoItems(Lookup(cv, "skills")) \/ NoItems(Lookup(jd, "skills"))
      [] k = "certifications" ->
            NoItems(Lookup(cv, "certifications")) \/ NoItems(Lookup(jd, "required_certifications"))
      [] k = "location" -> NoText(CvBasic("location")) \/ NoText(Lookup(jd, "jd_text"))
      [] OTHER -> FALSE
AbsentDims == {k \in Dims : SideEmpty(k)}

\* C9: an absent dimension scores 0 and the global score is the weighted
\* average of the dimensions that are present
C9_AbsentDimensionExcluded ==
    \A t \in Threads : Returned(t) /\ AbsentDims # {} =>
        /\ \A k \in AbsentDims : result[t].scores[k] = 0
        /\ result[t].global_score
              = Round4(WeightedAverage(UsedWeights, ScoresOf(t), Dims \ AbsentDims))

\* C10: title, skills, certifications: a side that is empty after
\* normalisation gives the score 0.0 and no call of the embedder
C10_EmptySideScoresZero ==
    \A t \in Threads : \A k \in {"title", "skills", "certifications"} :
        t \in workers /\ pc[t] = "done" /\ SideEmpty(k) =>
            /\ Returned(t)
            /\ result[t].scores[k] = 0
            /\ embedLog[t][k] = <<>>

\* a call returned for CV skills holding only blanks against JD skills that
\* hold text, and for a blank JD title against a CV title that holds text
C10_Witness ==
    /\ Returned(1)
    /\ Truthy(Lookup(cv, "skills")) /\ NoItems(Lookup(cv, "skills"))
    /\ ~NoItems(Lookup(jd, "skills"))
    /\ Truthy(JdBasic("title")) /\ NoText(JdBasic("title"))
    /\ ~NoText(CvBasic("current_title"))
    /\ embedLog[1]["skills"] = <<>> /\ embedLog[1]["title"] = <<>>
    /\ embedLog[1]["certifications"] # <<>>

\* the JD states no requirement: none, not a number, or not positive
NoRequirement ==
    Lookup(jd, "experience_required_years").t # "int"
    \/ Lookup(jd, "experience_required_years").v <= 0

Given(e, k) == Lookup(e, k).t # "None"
CountsDuration(e) == Lookup(e, "duration_months").t = "int" /\ Lookup(e, "duration_months").v >= 0
\* a scored field of the experience is missing, None or empty
ExperienceFieldAbsent ==
    \/ ~Given(jd, "experience_required_years")
    \/ ~Truthy(Lookup(cv, "experience"))
    \/ \E i \in DOMAIN Lookup(cv, "experience").v :
          \E k \in {"start_date", "end_date", "duration_months"} :
              ~Given(Lookup(cv, "experience").v[i], k)
\* no entry of the CV has a duration or a start date to count from
NothingToCount ==
    \/ ~Truthy(Lookup(cv, "experience"))
    \/ \A i \in DOMAIN Lookup(cv, "experience").v :
          /\ ~CountsDuration(Lookup(cv, "experience").v[i])
          /\ Lookup(Lookup(cv, "experience").v[i], "start_date").t # "date"

Affected(k) == IF k = "experience" THEN ExperienceFieldAbsent ELSE SideEmpty(k)

\* C8, as stated: no call raises, and every component that a missing, None or
\* empty field affects scores 0.0 (or 1.0: experience with no requirement)
C8_AbsentFieldScoresZero ==
    \A t \in workers : pc[t] = "done" =>
        /\ Returned(t)
        /\ \A k \in Dims : Affected(k) =>
              \/ result[t].scores[k] = 0
              \/ k = "experience" /\ NoRequirement /\ result[t].scores[k] = 10000

\* C8, amended: no call raises; an absent title, skills, certifications or
\* location side scores 0.0; experience scores 1.0 with no requirement and 0.0
\* against a requirement when no entry has a duration or a start date
C8_AbsentFieldsDegrade ==
    \A t \in workers : pc[t] = "done" =>
        /\ Returned(t)
        /\ \A k \in Dims : SideEmpty(k) => result[t].scores[k] = 0
        /\ NoRequirement => result[t].scores["experience"] = 10000
        /\ ~NoRequirement /\ NothingToCount => result[t].scores["experience"] = 0

\* a call returned for a CV whose profile is None and whose lists are missing,
\* against a JD whose job_profile is None and that states nothing else
C8_Witness ==
    /\ Returned(1)
    /\ DOMAIN cv.v = {"profile"} /\ cv.v["profile"].t = "None"
    /\ DOMAIN jd.v = {"job_profile"} /\ jd.v["job_profile"].t = "None"
    /\ result[1].scores =
          [title |-> 0, skills |-> 0, certifications |-> 0, experience |-> 10000,
           location |-> 0]

---------------------------------------------------------------------------
(* Properties of the experience score *)

Experience == Lookup(cv, "experience")
\* entry i of the CV's experience list
Entry(i) == Experience.v[i]

\* C11: against a JD whose experience_required_years is missing, None, no
\* number or <= 0, every CV scores exactly 1.0 on experience
C11_NoRequirementScoresOne ==
    \A t \in workers : pc[t] = "done" /\ NoRequirement =>
        Returned(t) /\ result[t].scores["experience"] = 10000

\* a call returned 1.0 for a CV with two entries, the first with a duration
\* that counts, against a requirement that is no number
C11_Witness ==
    /\ Returned(1)
    /\ result[1].scores["experience"] = 10000
    /\ Lookup(jd, "experience_required_years").t = "str"
    /\ Truthy(Experience) /\ Len(Experience.v) = 2
    /\ CountsDuration(Entry(1))

\* the JD's requirement, in years, when it states one
Required == Lookup(jd, "experience_required_years").v
\* the months of the CV's entries, added up, at the date of worker t's call
MonthsAt(t) == TotalMonths(Experience.v, callDate[t]).v
\* the same, of at most 40 years
Capped(months) == IF months > 480 THEN 480 ELSE months

\* the experience score of a CV that has one entry of the given duration
ScoreOfMonths(t, months) ==
    Round4(_experience_score(MkCV({}, "missing", OneEntry(months)), jd, callDate[t]))

\* more experience never scores less: against the CVs of one entry
NeverDecreases(t) ==
    \A m \in RatioMonths :
        /\ m >= MonthsAt(t) => ScoreOfMonths(t, m) >= result[t].scores["experience"]
        /\ m <= MonthsAt(t) => ScoreOfMonths(t, m) <= result[t].scores["experience"]

\* C12, as stated: against a positive requirement the experience score never
\* decreases as the CV's total experience grows, and it is 1.0 exactly when
\* that total is at least the requirement, also above 40 years
C12_FullScoreWhenRequirementMet ==
    \A t \in workers : Returned(t) /\ ~NoRequirement /\ Truthy(Experience) =>
        /\ NeverDecreases(t)
        /\ result[t].scores["experience"] = 10000 <=> MonthsAt(t) >= 12 * Required

\* C12, amended: the score never decreases as the total grows, and it is 1.0
\* exactly when the total, counted up to 40 years, is at least the requirement
C12_FullScoreWhenCappedYearsMeet ==
    \A t \in workers : Returned(t) /\ ~NoRequirement /\ Truthy(Experience) =>
        /\ NeverDecreases(t)
        /\ result[t].scores["experience"] = 10000 <=> Capped(MonthsAt(t)) >= 12 * Required

\* a call returned less than 1.0 for 50 years of experience against 41 required
C12_Witness ==
    /\ Returned(1)
    /\ Truthy(Experience) /\ MonthsAt(1) = 600
    /\ Lookup(jd, "experience_required_years") = Num(41)
    /\ result[1].scores["experience"] = 9756

\* C13: against a requirement jd_years > 0 the experience score is
\* min(cv_years / jd_years, 1.0), hence within [0.0, 1.0]
C13_ScoreIsCappedRatio ==
    \A t \in workers : Returned(t) /\ ~NoRequirement /\ Truthy(Experience) =>
        /\ result[t].scores["experience"]
              = Round4(RatMin(Rat(Capped(MonthsAt(t)), 12 * Required), Rat(1, 1)))
        /\ result[t].scores["experience"] >= 0
        /\ result[t].scores["experience"] <= 10000

\* a call returned 0.5 for 36 months of experience against 6 years required
C13_Witness ==
    /\ Returned(1)
    /\ Truthy(Experience) /\ MonthsAt(1) = 36
    /\ Lookup(jd, "experience_required_years") = Num(6)
    /\ result[1].scores["experience"] = 5000

\* every duration_months an entry gives is a count of months
DurationsAreCounts ==
    \A i \in DOMAIN Experience.v : Given(Entry(i), "duration_months") => CountsDuration(Entry(i))

\* months from date a to date b, never below 0
MonthsBetween(a, b) ==
    IF (b.y - a.y) * 12 + (b.m - a.m) > 0 THEN (b.y - a.y) * 12 + (b.m - a.m) ELSE 0

\* the end of entry e, or the date now when it has none
EndOrNow(e, now) == IF Lookup(e, "end_date").t = "date" THEN Lookup(e, "end_date") ELSE now

\* what entry e contributes: its duration_months, else the months from its
\* start to its end or to now, else nothing
Contribution(e, now) ==
    IF Given(e, "duration_months") THEN Lookup(e, "duration_months").v
    ELSE IF Lookup(e, "start_date").t = "date"
         THEN MonthsBetween(Lookup(e, "start_date"), EndOrNow(e, now))
    ELSE 0

RECURSIVE Contributions(_, _)
Contributions(entries, now) ==
    IF entries = <<>> THEN 0
    ELSE Contribution(Head(entries), now) + Contributions(Tail(entries), now)

---------------------------------------------------------------------------
(* Properties of the location score *)

\* the CV's location and the JD's text, whitespace-normalised and lower-cased
NormLocation == Lower(_normspace(CvBasic("location")).v)
NormText == Lower(_normspace(Lookup(jd, "jd_text")).v)
\* piece occurs in text
Occurs(piece, text) ==
    \E i \in 1..Len(text) :
        i + Len(piece) - 1 <= Len(text) /\ \A j \in DOMAIN piece : text[i + j - 1] = piece[j]

\* C15: the location score is 1.0 when the normalised CV location has 3
\* characters or more and occurs in the normalised JD text, and 0.0 otherwise
C15_LocationIsSubstringOfText ==
    \A t \in workers : Returned(t) =>
        /\ result[t].scores["location"] \in {0, 10000}
        /\ result[t].scores["location"] = 10000
              <=> Len(NormLocation) >= 3 /\ Occurs(NormLocation, NormText)

\* a call returned 0.0 for the location "ab " against a JD text that holds "ab"
C15_Witness ==
    /\ Returned(1)
    /\ CvBasic("location") = Str(<<"a", "b", " ">>)
    /\ Occurs(NormLocation, NormText)
    /\ result[1].scores["location"] = 0

---------------------------------------------------------------------------
(* Properties of the weights *)

\* the default vector, in hundredths
DefaultVector ==
    [title |-> 25, skills |-> 25, certifications |-> 15, experience |-> 20, location |-> 5]
\* has the caller supplied key k?
Supplied(k) == weights.t = "dict" /\ k \in DOMAIN weights.v
\* the caller's value for each key supplied, the default for every other key
Overridden == [k \in Dims |-> IF Supplied(k) THEN weights.v[k] ELSE DefaultVector[k]]

\* C16: the global score is computed with the default vector overridden key
\* by key by the caller's weights, and no call changes the module's defaults
C16_WeightsMergedOverDefaults ==
    /\ defaultWeights = DefaultVector
    /\ \A t \in workers : pc[t] = "done" =>
          /\ Returned(t)
          /\ result[t].global_score
                = Round4(RatDiv(WeightedSum(Overridden, ScoresOf(t), Dims), 100))

\* a call returned for weights {"skills": 2.0} and scores 1.0 but for 31/48 on
\* experience: skills counted at 2.0, the other four at their defaults
C16_Witness ==
    /\ Returned(1)
    /\ Supplied("skills") /\ DOMAIN weights.v = {"skills"} /\ weights.v["skills"] = 200
    /\ result[1].scores = [title |-> 10000, skills |-> 10000, certifications |-> 10000,
                           experience |-> 6458, location |-> 10000]
    /\ result[1].global_score = 25792
    /\ defaultWeights = DefaultVector

\* the caller has set all five weights to 0
AllZero == \A k \in Dims : Supplied(k) /\ weights.v[k] = 0

\* C17: with all five weights set to 0 the call returns, and its global score
\* is exactly 0.0
C17_AllZeroWeightsScoreZero ==
    \A t \in workers : pc[t] = "done" /\ AllZero =>
        Returned(t) /\ result[t].global_score = 0

\* a call returned global score 0.0 with all weights 0 although no component
\* scored 0.0
C17_Witness ==
    /\ Returned(1)
    /\ AllZero
    /\ \A k \in Dims : result[1].scores[k] > 0
    /\ result[1].global_score = 0

---------------------------------------------------------------------------
(* Frame of compute_match *)

IsText(x) == \A i \in DOMAIN x : x[i] \in STRING
\* the result is a new dict of three strings, a number and a new dict of five
\* numbers: no dict or list of the arguments is part of it
BuiltAnew(r) ==
    r.t = "dict" =>
        /\ DOMAIN r = {"t", "candidate_name", "cv_title", "jd_title", "scores", "global_score"}
        /\ IsText(r.candidate_name) /\ IsText(r.cv_title) /\ IsText(r.jd_title)
        /\ DOMAIN r.scores = Dims
        /\ \A k \in Dims : r.scores[k] \in Int
        /\ r.global_score \in Int

\* C18: a call leaves cv, jd and the caller's weights as they were, and what
\* it returns holds no mutable part of them
C18_ArgumentsUnchanged ==
    [][\A t \in workers : pc[t] # "done" /\ pc'[t] = "done" =>
          /\ cv' = cv /\ jd' = jd /\ weights' = weights
          /\ BuiltAnew(result'[t])]_vars

\* a call returned for the caller's weights {"title": 0}, which still hold
\* that one key
C18_Witness ==
    /\ Returned(1)
    /\ Supplied("title") /\ DOMAIN weights.v = {"title"} /\ weights.v["title"] = 0
    /\ BuiltAnew(result[1])

---------------------------------------------------------------------------
(* main.py: the bulk match handler *)

MaxCvs == 2         \* CVs of a short bulk request
BulkCap == 100

\* matcher.match(cv, jd, weights=weights) as main.py calls it: matcher.py
\* defines compute_match and no match, so the attribute lookup raises
matcher_match(e, cv_json, jd_json, w_in, now) == Raise

HTTPException(status_code, detail, item) ==
    [t |-> "error", status |-> status_code, detail |-> detail, item |-> item]

\* what the handler has come to: its response, its results list, its calls of
\* the matcher, whether it reached history_store.append_event
BulkOutcome(resp, res, calls, logged) ==
    [response |-> resp, results |-> res, calls |-> calls, logged |-> logged]

RECURSIVE BulkLoop(_, _, _, _, _, _, _)
\* one pass of `for idx, cv in enumerate(cvs)`: match_res is this item's outcome
BulkItem(e, list, idx, jd_json, w_in, now, acc, match_res) ==
    IF IsRaise(match_res)
    THEN BulkOutcome(HTTPException(500, "Matching failed for CV #", idx + 1), acc, idx + 1, FALSE)
    ELSE BulkLoop(e, list, idx + 1, jd_json, w_in, now,
                  Append(acc, [index |-> idx, result |-> match_res]))
\* the loop from position idx on, and what follows it
BulkLoop(e, list, idx, jd_json, w_in, now, acc) ==
    IF idx = Len(list)
    THEN BulkOutcome([t |-> "ok", status |-> 200, results |-> acc, count |-> Len(acc)],
                     acc, idx, TRUE)
    ELSE BulkItem(e, list, idx, jd_json, w_in, now, acc,
                  matcher_match(e, list[idx + 1], jd_json, w_in, now))

\* BulkRequest without `if not cvs`
BulkRequest_NoEmptyCheck(e, list, jd_json, w_in, now) ==
    IF Len(list) > BulkCap
    THEN BulkOutcome(HTTPException(400, "Too many CVs; max allowed is 100", 0), <<>>, 0, FALSE)
    ELSE BulkLoop(e, list, 0, jd_json, w_in, now, <<>>)

\* post_match_bulk(body) from `cvs = body.cvs or []` to its return or raise
BulkRequest(e, list, jd_json, w_in, now) ==
    IF list = <<>>
    THEN BulkOutcome(HTTPException(400, "At least one CV is required", 0), <<>>, 0, FALSE)
    ELSE IF Len(list) > BulkCap
    THEN BulkOutcome(HTTPException(400, "Too many CVs; max allowed is 100", 0), <<>>, 0, FALSE)
    ELSE BulkLoop(e, list, 0, jd_json, w_in, now, <<>>)

\* the handler's effects, given what it has come to
BulkEffects(o) ==
    /\ response' = o.response
    /\ results' = o.results
    /\ matchCalls' = o.calls
    /\ history' = IF o.logged
                  THEN Append(history, [kind |-> "match_bulk", count |-> Len(o.results),
                                        results |-> o.results])
                  ELSE history

\* a worker serves POST /match/bulk
post_match_bulk(t) ==
    /\ pc[t] = "idle"
    /\ response = NoResponse
    /\ BulkEffects(BulkRequest(emb, cvs, jd, weights, today))
    /\ UNCHANGED <<svcVars, defaultWeights, cv, jd, weights, emb, today, ticks, workers, _MODEL,
                   constructed, instances, loadFailed, pc, local, afterFail, callDate,
                   result, embedLog, cvs>>

\* the CVs of bulk requests: short lists of different CVs, and long lists of
\* one CV around the cap
BulkCVs ==
    {MkCV({}, "missing", Base.experience), MkCV({"skills"}, "missing", Base.experience),
     MkCV({}, "missing", OneEntry(72))}
Repeat(x, n) == [i \in 1..n |-> x]
BulkLists ==
    SeqsUpTo(BulkCVs, MaxCvs)
    \cup {Repeat(MkCV({}, "missing", Base.experience), n) :
            n \in {BulkCap - 1, BulkCap, BulkCap + 1}}

InitBulk ==
    /\ Started({1})
    /\ NoServices
    /\ Loaded
    /\ ticks = 0
    /\ today = StartDate
    /\ emb \in Embs
    /\ weights \in {None, Dict("skills" :> 0)}
    /\ cv = MkCV({}, "missing", Base.experience)
    /\ jd = MkJD({}, "missing", Base.required_years)
    /\ cvs \in BulkLists
    /\ matchCalls = 0
    /\ results = <<>>
    /\ response = NoResponse
    /\ history = <<>>

NextBulk == \E t \in workers : post_match_bulk(t)

SpecBulk == InitBulk /\ [][NextBulk]_vars

---------------------------------------------------------------------------
(* Properties of the bulk match *)

Answered == response.t # "noresponse"
\* what a single match of the i-th CV of the request returns
Single(i) == compute_match(emb, cvs[i], jd, weights, today)

\* C19: a bulk match of 1 to 100 CVs, each of which a single match scores,
\* answers with one entry per CV, in order: entry i holds index i and the
\* result of the single match of cvs[i]; count is the number of CVs
C19_BulkIsSingleMatchPerCV ==
    Answered /\ Len(cvs) >= 1 /\ Len(cvs) <= 100
             /\ (\A i \in DOMAIN cvs : Single(i).t = "dict") =>
        /\ response.status = 200
        /\ response.count = Len(cvs)
        /\ Len(response.results) = Len(cvs)
        /\ \A i \in DOMAIN cvs :
              response.results[i] = [index |-> i - 1, result |-> Single(i)]

\* C20: a bulk request of no CV, or of more than 100, is answered 400, without
\* any call of the matcher and without any event added to the history
C20_BulkRejectsEmptyAndOversized ==
    Answered /\ (Len(cvs) = 0 \/ Len(cvs) > 100) =>
        /\ response.status = 400
        /\ matchCalls = 0
        /\ results = <<>>
        /\ history = <<>>

\* a request of 101 CVs was answered 400
C20_Witness ==
    /\ Answered
    /\ Len(cvs) = 101
    /\ response.status = 400
    /\ matchCalls = 0 /\ history = <<>>

\* the item the handler reports as failed (1-based, as in "CV #k")
FailedItem == response.item

---------------------------------------------------------------------------
(* jd_parser.py and cv_parser.py: normalisation of the extracted records   *)

\* raise SchemaError(...)
SchemaError == [t |-> "raise", exc |-> "SchemaError"]

\* d[k] = v
Put(d, k, v) == Dict((k :> v) @@ d.v)
\* d.pop(k, None)
Pop(d, k) == Dict([x \in DOMAIN d.v \ {k} |-> d.v[x]])

\* the characters of the model's texts, in code point order
CharOrder == <<"\t", " ", "0", "1", "2", "3", "4", "5", "6", "7", "8", "9",
               "A", "B", "C", "a", "b", "c", "x">>
Ord(c) == CHOOSE i \in DOMAIN CharOrder : CharOrder[i] = c

\* a < b for two str
RECURSIVE StrLess(_, _)
StrLess(a, b) ==
    IF b = <<>> THEN FALSE
    ELSE IF a = <<>> THEN TRUE
    ELSE IF Head(a) = Head(b) THEN StrLess(Tail(a), Tail(b))
    ELSE Ord(Head(a)) < Ord(Head(b))

\* sorted(list(S)) for a set S of str
RECURSIVE Sorted(_)
Least(S) == CHOOSE x \in S : \A y \in S : ~StrLess(y, x)
SortedFrom(S, least) == <<least>> \o Sorted(S \ {least})
Sorted(S) == IF S = {} THEN <<>> ELSE SortedFrom(S, Least(S))

\* str.strip()
RECURSIVE DropTrailing(_)
DropTrailing(s) ==
    IF s # <<>> /\ IsSpace(s[Len(s)]) THEN DropTrailing(SubSeq(s, 1, Len(s) - 1)) ELSE s
PyStrip(s) == DropTrailing(DropSpaces(s))

\* str.isdigit() and int(str) for the digits of CharOrder
IsDigit(c) == Ord(c) >= Ord("0") /\ Ord(c) <= Ord("9")
IsDigits(s) == s # <<>> /\ \A i \in DOMAIN s : IsDigit(s[i])
RECURSIVE IntOf(_)
IntOf(s) ==
    IF s = <<>> THEN 0
    ELSE 10 * IntOf(SubSeq(s, 1, Len(s) - 1)) + (Ord(s[Len(s)]) - Ord("0"))

\* (v or "").strip().lower() of an item of a list of str
NormItem(v) == Lower(PyStrip(Or(v, Str(<<>>)).v))

\* the list of str holding the texts of seq
StrList(seq) == List([i \in DOMAIN seq |-> Str(seq[i])])

\* {(v or "").strip().lower() for v in values if (v or "").strip()}
Dedup(items) == {NormItem(items[k]) : k \in DOMAIN items} \ {<<>>}

\* _norm_list_str(values): stripped, lower-cased, deduplicated, sorted
_norm_list_str(values) == StrList(Sorted(Dedup(Or(values, List(<<>>)).v)))

\* the coercion of experience_required_years, when the key is there
CoerceYears(p, yrs) ==
    IF yrs.t = "int" THEN Put(p, "experience_required_years", Num(IF yrs.v > 0 THEN yrs.v ELSE 0))
    ELSE Pop(p, "experience_required_years")
YearsOf(yrs) == IF yrs.t = "str" /\ IsDigits(yrs.v) THEN Num(IntOf(yrs.v)) ELSE yrs
JdYearsCoerced(p) ==
    IF "experience_required_years" \in DOMAIN p.v
    THEN CoerceYears(p, YearsOf(p.v["experience_required_years"]))
    ELSE p

\* basics with title and company stripped
JdBasicsStripped(basics) ==
    Put(Put(basics, "title", Str(PyStrip(Or(DictGet(basics, "title", None), Str(<<>>)).v))),
        "company", Str(PyStrip(Or(DictGet(basics, "company", None), Str(<<>>)).v)))

\* JdChecked testing the title alone
JdChecked_TitleOnly(p, job_profile, basics) ==
    IF basics.v["title"].v = <<>> THEN SchemaError
    ELSE JdYearsCoerced(
            Put(Put(Put(p, "job_profile", Put(job_profile, "basics", basics)),
                    "skills", _norm_list_str(DictGet(p, "skills", None))),
                "required_certifications",
                _norm_list_str(DictGet(p, "required_certifications", None))))

\* normalize_jd from the check of title and company on
JdChecked(p, job_profile, basics) ==
    IF basics.v["title"].v = <<>> \/ basics.v["company"].v = <<>> THEN SchemaError
    ELSE JdYearsCoerced(
            Put(Put(Put(p, "job_profile", Put(job_profile, "basics", basics)),
                    "skills", _norm_list_str(DictGet(p, "skills", None))),
                "required_certifications",
                _norm_list_str(DictGet(p, "required_certifications", None))))

JdProfiled(p, job_profile) ==
    JdChecked(p, job_profile,
              JdBasicsStripped(Or(DictGet(job_profile, "basics", None), EmptyDict)))

\* normalize_jd(parsed, detected_lang, raw_text): the record, or SchemaError
normalize_jd(p, lang, raw) ==
    JdProfiled(Put(Put(p, "jd_language",
                       Or(Or(lang, DictGet(p, "jd_language", None)), Str(<<"u", "n", "d">>))),
                   "jd_text", raw),
               Or(DictGet(p, "job_profile", None), EmptyDict))

Bool(b) == [t |-> "bool", v |-> b]

\* cv_parser._normalize_spaces(s): re.sub(r"[ \t]+", " ", (s or "").strip())
_normalize_spaces(s) == Str(CollapseSpaces(PyStrip(Or(s, Str(<<>>)).v)))

UpperChar(c) ==
    CASE c = "a" -> "A" [] c = "b" -> "B" [] c = "c" -> "C" [] OTHER -> c

\* _titlecase_name(s) of a text whose words single spaces separate
_titlecase_name(s) ==
    Str([i \in DOMAIN s.v |-> IF i = 1 \/ s.v[i - 1] = " " THEN UpperChar(s.v[i])
                              ELSE LowerChar(s.v[i])])

\* _to_iso(date_str): the ISO date of a string dateutil parses, or None
_to_iso(date_str) ==
    IF ~Truthy(date_str) THEN None
    ELSE IF date_str.t = "date" THEN DateStr(date_str.y, date_str.m)
    ELSE None

\* the months from start to end, floored at 0
MonthsFloored(months) == IF months >= 0 THEN months ELSE 0

\* _months_between_if_both returning None unless both dates are there
_months_between_if_both_OrNone(start_iso, end_iso) ==
    IF ~Truthy(start_iso) \/ ~Truthy(end_iso) THEN None
    ELSE Num(MonthsFloored((end_iso.y - start_iso.y) * 12 + (end_iso.m - start_iso.m)))

\* _months_between_if_both(start_iso, end_iso)
_months_between_if_both(start_iso, end_iso) ==
    IF ~Truthy(start_iso) \/ ~Truthy(end_iso) THEN Num(0)
    ELSE Num(MonthsFloored((end_iso.y - start_iso.y) * 12 + (end_iso.m - start_iso.m)))

\* EMAIL_RE.search(text): the texts of the model hold no "@", which every
\* match of EMAIL_RE needs, so the search finds nothing
EMAIL_RE_search(text) == None

\* re.sub(r"[^0-9+]", "", phone)
PhoneChar(c) == c = "+" \/ IsDigit(c)
PhoneDigits(phone) == Str(SelectSeq(phone.v, PhoneChar))

\* s.split(" ") of a text whose words single spaces separate
RECURSIVE Words(_, _)
Words(s, word) ==
    IF s = <<>> THEN <<word>>
    ELSE IF Head(s) = " " THEN <<word>> \o Words(Tail(s), <<>>)
    ELSE Words(Tail(s), Append(word, Head(s)))

InternWords ==
    {<<"i", "n", "t", "e", "r", "n">>,
     <<"s", "t", "a", "g", "i", "a", "i", "r", "e">>,
     <<"i", "n", "t", "e", "r", "n", "s", "h", "i", "p">>,
     <<"a", "p", "p", "r", "e", "n", "t", "i", "c", "e">>}

\* re.search(r"\b(intern|stagiaire|internship|apprentice)\b", label): the
\* model's texts are letters, digits and blanks, so a word boundary is a blank
\* or an end of the text
IsInternship(title, company) ==
    \E i \in DOMAIN Words(Lower(title.v \o <<" ">> \o company.v), <<>>) :
        Words(Lower(title.v \o <<" ">> \o company.v), <<>>)[i] \in InternWords

NonEmptyText(x) == _normalize_spaces(x).v # <<>>

\* [_normalize_spaces(h) for h in items if _normalize_spaces(h)]
NormalizedTexts(items) ==
    List([i \in DOMAIN SelectSeq(items, NonEmptyText) |->
            _normalize_spaces(SelectSeq(items, NonEmptyText)[i])])

\* e["highlights"] normalised when it is a list
WithHighlights(e) ==
    IF DictGet(e, "highlights", None).t = "list"
    THEN Put(e, "highlights", NormalizedTexts(e.v["highlights"].v))
    ELSE e

\* one pass of `for e in exps`, the dates being converted
EntryDated(e, title, company, s_iso, e_iso) ==
    WithHighlights(
        Put(Put(Put(Put(Put(Put(e, "title", title), "company", company),
                        "start_date", Or(s_iso, Str(<<>>))),
                    "end_date", Or(e_iso, Str(<<>>))),
                "duration_months", _months_between_if_both(s_iso, e_iso)),
            "is_internship", Bool(IsInternship(title, company))))

NormalizedEntry(e) ==
    EntryDated(e, _normalize_spaces(DictGet(e, "title", Str(<<>>))),
               _normalize_spaces(DictGet(e, "company", Str(<<>>))),
               _to_iso(DictGet(e, "start_date", None)),
               _to_iso(DictGet(e, "end_date", None)))

\* one pass of `for ed in edus`: the year an int, or None
EducationYear(y) ==
    IF y.t = "str" /\ IsDigits(y.v) THEN Num(IntOf(y.v))
    ELSE IF y.t = "int" THEN y
    ELSE None
NormalizedEducation(ed) ==
    Put(Put(Put(ed, "degree", _normalize_spaces(DictGet(ed, "degree", Str(<<>>)))),
            "school", _normalize_spaces(DictGet(ed, "school", Str(<<>>)))),
        "year", EducationYear(DictGet(ed, "year", None)))

allowed_levels ==
    {<<"n", "a", "t", "i", "v", "e">>, <<"f", "l", "u", "e", "n", "t">>,
     <<"a", "d", "v", "a", "n", "c", "e", "d">>,
     <<"i", "n", "t", "e", "r", "m", "e", "d", "i", "a", "t", "e">>,
     <<"b", "a", "s", "i", "c">>}

\* one pass of `for l in langs`
LanguageLevel(lvl) == IF lvl \in allowed_levels THEN Str(lvl) ELSE None
NormalizedLanguage(l) ==
    Put(Put(l, "name", Str(Lower(_normalize_spaces(DictGet(l, "name", Str(<<>>))).v))),
        "level", LanguageLevel(Lower(_normalize_spaces(DictGet(l, "level", Str(<<>>))).v)))

\* basics[key] normalised when it is there and not empty
Respaced(basics, key) ==
    IF Truthy(DictGet(basics, key, None))
    THEN Put(basics, key, _normalize_spaces(basics.v[key]))
    ELSE basics

\* basics["email"]: the first address of the field, or else of the raw text
EmailOf(email, raw) ==
    IF Truthy(email) THEN Or(EMAIL_RE_search(email), Str(<<>>))
    ELSE Or(EMAIL_RE_search(Or(raw, Str(<<>>))), Str(<<>>))

\* the basics as normalize_cv leaves them
NormalizedBasics(basics, raw) ==
    Put(Put(Respaced(Respaced(Respaced(
                Put(Put(basics, "first_name",
                        _titlecase_name(_normalize_spaces(DictGet(basics, "first_name", Str(<<>>))))),
                    "last_name",
                    _titlecase_name(_normalize_spaces(DictGet(basics, "last_name", Str(<<>>))))),
                "full_name_raw"), "current_title"), "location"),
            "email", EmailOf(_normalize_spaces(DictGet(basics, "email", Str(<<>>))), raw)),
        "phone", PhoneDigits(Or(DictGet(basics, "phone", Str(<<>>)), Str(<<>>))))

\* parsed with its profile's basics normalised; basics reached through the
\* defaults of .get() are a new dict that parsed does not hold
WithBasics(p, raw) ==
    IF "profile" \in DOMAIN p.v /\ "basics" \in DOMAIN p.v["profile"].v
    THEN Put(p, "profile",
             Put(p.v["profile"], "basics", NormalizedBasics(p.v["profile"].v["basics"], raw)))
    ELSE p

\* _normalize_spaces(str(s)).lower() of a skill
SkillText(s) == Lower(_normalize_spaces(s).v)
\* sorted(list({s for s in skills_norm}))
NormalizedSkills(skills) ==
    StrList(Sorted({SkillText(skills[k]) : k \in DOMAIN skills} \ {<<>>}))

\* the list of Op(x) for x in items
MapList(Op(_), items) == List([i \in DOMAIN items |-> Op(items[i])])

\* parsed.get(key, []) or []
ListOf(p, key) == Or(DictGet(p, key, List(<<>>)), List(<<>>)).v

\* normalize_cv(parsed, detected_lang, raw_text)
normalize_cv(p, lang, raw) ==
    Put(Put(Put(Put(Put(
        WithBasics(Put(Put(p, "cv_language",
                           Or(Or(lang, DictGet(p, "cv_language", None)), Str(<<"u", "n", "d">>))),
                       "cv_text", raw), raw),
        "skills", NormalizedSkills(ListOf(p, "skills"))),
        "experience", MapList(NormalizedEntry, ListOf(p, "experience"))),
        "education", MapList(NormalizedEducation, ListOf(p, "education"))),
        "languages", MapList(NormalizedLanguage, ListOf(p, "languages"))),
        "certifications", NormalizedTexts(ListOf(p, "certifications")))

---------------------------------------------------------------------------
(* The parsers' inputs, and the normalisation as a process: an extracted   *)
(* record is normalised, and a normalised CV is matched against the JD     *)

\* what the extraction gave for a date: nothing, an empty string, a date,
\* a text that is no date
ParsedEntries ==
    {Dict(a @@ b @@ ("title" :> Str(<<"a", " ", " ", "b">>))) :
        a \in OptKey("start_date", {DateStr(1, 11)}),
        b \in OptKey("end_date", {DateStr(2, 3), DateStr(1, 5), Str(<<"x">>)})}
    \cup {Dict("start_date" :> DateStr(1, 11) @@ "end_date" :> Str(<<>>)
               @@ "duration_months" :> Num(30) @@ "company" :> Str(<<"c">>)
               @@ "highlights" :> List(<<Str(<<" ">>), Str(<<"a", "\t", "b">>)>>))}

ParsedSkills ==
    {List(<<>>),
     List(<<Str(<<"b">>), Str(<<"A", " ", "\t", "c">>), Str(<<" ", "a", " ", "c">>),
            Str(<<"\t">>), Str(<<"B">>)>>),
     List(<<Str(<<"c">>), Str(<<"a", "b">>), Str(<<"a">>), Str(<<"C">>)>>)}

Langs == {Str(<<>>), Str(<<"a">>)}

ParsedCV(skills, entries) ==
    Dict([profile |-> Dict("basics" :>
                Dict([first_name |-> Str(<<" ", "a", "B", " ", " ", "c">>),
                      last_name |-> Str(<<"B">>),
                      current_title |-> Base.current_title,
                      location |-> Base.location,
                      phone |-> Str(<<"0", " ", "1", "a", "2">>)])),
          skills |-> skills,
          experience |-> List(entries),
          education |-> List(<<Dict("degree" :> Str(<<"a", " ">>) @@ "year" :> Str(<<"1", "9">>)),
                               Dict("school" :> Str(<<"b">>) @@ "year" :> Str(<<"x">>))>>),
          languages |-> List(<<Dict("name" :> Str(<<"A">>)
                                    @@ "level" :> Str(<<"b", "a", "s", "i", "c">>)),
                               Dict("name" :> Str(<<"b">>) @@ "level" :> Str(<<"a">>))>>),
          certifications |-> List(<<Str(<<" ", "A">>), Str(<<" ">>), Str(<<"A">>)>>),
          cv_language |-> Str(<<"b">>),
          cv_text |-> Str(<<>>)])

ParsedCVs ==
    {ParsedCV(sk, l) : sk \in ParsedSkills, l \in SeqsUpTo(ParsedEntries, MaxEntries)}

\* title and company of an extracted JD: missing, None, empty, blank, given
NameVals == {None, Str(<<>>), BlankStr, Str(<<" ", "b", " ", "c", "\t">>), Str(<<"b">>)}
ParsedYears ==
    {None, Num(0), Num(3), Num(-2), Str(<<"1", "2">>), Str(<<"x">>), Str(<<>>)}

ParsedJD(basics, years) ==
    Dict(basics @@ years
         @@ [skills |-> List(<<Str(<<"b", " ">>), None, Str(<<"A">>), Str(<<"a">>)>>),
             jd_language |-> Str(<<"b">>),
             jd_text |-> Str(<<>>)])

ParsedJDs ==
    {ParsedJD("job_profile" :> Dict("basics" :> Dict(a @@ b)), y) :
        a \in OptKey("title", NameVals), b \in OptKey("company", NameVals),
        y \in OptKey("experience_required_years", ParsedYears)}
    \cup {ParsedJD(p, <<>>) :
            p \in {<<>>, "job_profile" :> None, "job_profile" :> Dict("basics" :> None)}}

InitParse ==
    /\ Started({1})
    /\ NoExtract
    /\ NoKpi
    /\ Bootstrap
    /\ NoEval
    /\ NoBulk
    /\ Loaded
    /\ ticks = 0
    /\ today = StartDate
    /\ emb = [x \in Texts |-> 1]
    /\ weights = None
    /\ cv = MkCV({}, "missing", Base.experience)
    /\ jd = MkJD({}, "missing", Base.required_years)
    /\ \/ parser = "cv" /\ parsed \in ParsedCVs
       \/ parser = "jd" /\ parsed \in ParsedJDs
    /\ detected_lang \in Langs
    /\ raw_text = Base.jd_text
    /\ record = NoRecord

\* parse_cv_file, step 6: normalized = normalize_cv(parsed, lang, raw)
NormalizeCV ==
    /\ parser = "cv"
    /\ record = NoRecord
    /\ record' = normalize_cv(parsed, detected_lang, raw_text)
    /\ UNCHANGED <<defaultWeights, bulkVars, cv, jd, weights, emb, today, ticks, workers,
                   _MODEL, constructed, instances, loadFailed, pc, local, afterFail,
                   callDate, result, embedLog, parser, parsed, detected_lang, raw_text,
                   extractVars, kpiVars, authVars, evalVars>>

\* parse_jd_file, step 6: normalized = normalize_jd(parsed, lang, raw)
NormalizeJD ==
    /\ parser = "jd"
    /\ record = NoRecord
    /\ record' = normalize_jd(parsed, detected_lang, raw_text)
    /\ UNCHANGED <<defaultWeights, bulkVars, cv, jd, weights, emb, today, ticks, workers,
                   _MODEL, constructed, instances, loadFailed, pc, local, afterFail,
                   callDate, result, embedLog, parser, parsed, detected_lang, raw_text,
                   extractVars, kpiVars, authVars, evalVars>>

\* the normalised CV is the cv of a match request: compute_match(record, jd)
MatchRecord(t) ==
    /\ parser = "cv"
    /\ record.t = "dict"
    /\ pc[t] = "idle"
    /\ _MODEL.t = "model"
    /\ cv' = record
    /\ result' = [result EXCEPT ![t] = compute_match(emb, record, jd, weights, today)]
    /\ embedLog' = [embedLog EXCEPT ![t] = EmbedCalls(emb, record, jd)]
    /\ callDate' = [callDate EXCEPT ![t] = today]
    /\ pc' = [pc EXCEPT ![t] = "done"]
    /\ UNCHANGED <<svcVars, defaultWeights, bulkVars, jd, weights, emb, today, ticks, workers,
                   _MODEL, constructed, instances, loadFailed, local, afterFail>>

NextParse ==
    \/ NormalizeCV
    \/ NormalizeJD
    \/ \E t \in workers : MatchRecord(t)

SpecParse == InitParse /\ [][NextParse]_vars

---------------------------------------------------------------------------
(* Properties of the normalisation *)

\* normalize_jd has returned or raised
JdNormalized == parser = "jd" /\ record # NoRecord
\* a field of the basics of the extracted JD, and of the returned record
ParsedBasic(k) == Lookup(Lookup(Lookup(parsed, "job_profile"), "basics"), k)
RecordBasic(k) == Lookup(Lookup(Lookup(record, "job_profile"), "basics"), k)
\* a text that is not empty and starts and ends with no whitespace
StrippedText(x) ==
    x.t = "str" /\ x.v # <<>> /\ ~IsSpace(x.v[1]) /\ ~IsSpace(x.v[Len(x.v)])

\* C22: a record normalize_jd returns has a title and a company that are not
\* empty once stripped, and its experience_required_years is absent or an
\* integer >= 0; an extracted JD whose title or company is missing, None or
\* blank is rejected with SchemaError, and no record is returned
C22_ReturnedJdHasTitleAndCompany ==
    JdNormalized =>
        /\ record.t = "dict" =>
              /\ StrippedText(RecordBasic("title")) /\ StrippedText(RecordBasic("company"))
              /\ \/ "experience_required_years" \notin DOMAIN record.v
                 \/ /\ record.v["experience_required_years"].t = "int"
                    /\ record.v["experience_required_years"].v >= 0
        /\ NoText(ParsedBasic("title")) \/ NoText(ParsedBasic("company")) =>
              record = SchemaError

\* a JD whose title had blanks around it and whose years were -2 was returned
\* with the title stripped and 0 years, and one whose company was blank was
\* not: both kinds of state are reached, this is the first
C22_Witness ==
    /\ JdNormalized
    /\ ParsedBasic("title") = Str(<<" ", "b", " ", "c", "\t">>)
    /\ Lookup(parsed, "experience_required_years") = Num(-2)
    /\ record.t = "dict"
    /\ RecordBasic("title") = Str(<<"b", " ", "c">>)
    /\ record.v["experience_required_years"] = Num(0)

\* a JD with a blank company was rejected
C22_Rejected ==
    /\ JdNormalized
    /\ ParsedBasic("title") = Str(<<"b">>)
    /\ ParsedBasic("company") = BlankStr
    /\ record = SchemaError

\* normalize_cv has returned
CvNormalized == parser = "cv" /\ record.t = "dict"
\* entry i of the returned record's experience, and its dates when known
RecordEntry(i) == record.v["experience"].v[i]
DateKnown(e, k) == Lookup(e, k).t = "date"
\* the months from the start of entry e to its end
MonthDifference(e) ==
    (Lookup(e, "end_date").y - Lookup(e, "start_date").y) * 12
        + (Lookup(e, "end_date").m - Lookup(e, "start_date").m)
\* the returned record's skills
RecordSkills == record.v["skills"].v

\* C23: in a record normalize_cv returns, an experience entry carries a
\* duration_months only when both its start date and its end date are known,
\* and the value is then an integer >= 0 equal to the month difference of the
\* two dates; the skills are sorted, without case-insensitive duplicates
C23_DurationOnlyFromBothDates ==
    CvNormalized =>
        /\ \A i \in DOMAIN record.v["experience"].v :
              "duration_months" \in DOMAIN RecordEntry(i).v =>
                  /\ DateKnown(RecordEntry(i), "start_date")
                  /\ DateKnown(RecordEntry(i), "end_date")
                  /\ RecordEntry(i).v["duration_months"].t = "int"
                  /\ RecordEntry(i).v["duration_months"].v >= 0
                  /\ RecordEntry(i).v["duration_months"].v = MonthDifference(RecordEntry(i))
        /\ \A i, j \in DOMAIN RecordSkills :
              i < j => /\ StrLess(RecordSkills[i].v, RecordSkills[j].v)
                       /\ Lower(RecordSkills[i].v) # Lower(RecordSkills[j].v)

\* worker t's result is the match of the record normalize_cv returned
MatchedRecord(t) == CvNormalized /\ cv = record /\ Returned(t)
\* the duration_months the entries store, added up
StoredOf(e) ==
    IF Lookup(e, "duration_months").t = "int" THEN Lookup(e, "duration_months").v ELSE 0
RECURSIVE StoredMonths(_)
StoredMonths(entries) ==
    IF entries = <<>> THEN 0 ELSE StoredOf(Head(entries)) + StoredMonths(Tail(entries))
\* entry i as extracted is a current position: a start date, no end date
ParsedEntry(i) == parsed.v["experience"].v[i]
CurrentPosition(i) ==
    DateKnown(ParsedEntry(i), "start_date") /\ ~DateKnown(ParsedEntry(i), "end_date")
\* the months from the start of entry i to the date of worker t's call
MonthsToCall(t, i) ==
    MonthsBetween(Lookup(ParsedEntry(i), "start_date"), callDate[t])

\* C29: for a record normalize_cv returned, the experience compute_match
\* scores is the sum of the stored duration_months alone, never the months
\* from a start date to the current date: an entry with a start date and no
\* end date adds zero months to the CV's experience
C29_NormalizedCvCountsStoredMonthsOnly ==
    \A t \in workers : MatchedRecord(t) /\ ~NoRequirement =>
        /\ result[t].scores["experience"]
              = Round4(RatMin(Rat(Capped(StoredMonths(record.v["experience"].v)),
                                  12 * Required), Rat(1, 1)))
        /\ \A i \in DOMAIN record.v["experience"].v :
              CurrentPosition(i) => StoredOf(RecordEntry(i)) = 0

\* a normalised CV of two entries was matched against 4 years required, 13
\* months after the start of its current position: the entry of 4 months
\* between its dates alone counts, 4/48
C29_Witness ==
    /\ MatchedRecord(1)
    /\ Required = 4
    /\ Len(record.v["experience"].v) = 2
    /\ ~CurrentPosition(1) /\ StoredOf(RecordEntry(1)) = 4
    /\ CurrentPosition(2) /\ MonthsToCall(1, 2) = 13
    /\ result[1].scores["experience"] = 833

---------------------------------------------------------------------------
(* cv_parser.call_ollama_extract and jd_parser.call_ollama_extract_jd: the *)
(* request to the LLM and its retries.  A prompt is the sequence of its    *)
(* parts; one loop iteration is one action, its outcome drawn from what    *)
(* the request and json.loads can produce.                                 *)

\* user: the schema, the language hint and the truncated text
UserPrompt(lang, text) == <<"schema", lang, text>>
reinforcement == "Return strictly valid JSON only. No extra text."

\* what a request can come to: the parsed JSON of the response, or an
\* exception of requests.post, raise_for_status, resp.json or json.loads
Parsable == {Dict("skills" :> List(<<>>)), List(<<>>)}
Failures == {"ConnectionError", "HTTPError", "JSONDecodeError"}
Outcomes ==
    {[ok |-> TRUE, json |-> j] : j \in Parsable}
    \cup {[ok |-> FALSE, exc |-> x] : x \in Failures}

RuntimeError(exc) == [t |-> "raise", exc |-> "RuntimeError", last |-> exc]

\* the prompt of the retry, the suffix added to the prompt sent last
Reinforced_Accumulated(user, prompt) == Append(prompt, reinforcement)

\* payload["prompt"] = user + "\n\nReturn strictly valid JSON only. No extra text."
Reinforced(user, prompt) == Append(user, reinforcement)

\* the body of the loop with outcome o: `return json.loads(content)`, or the
\* except clause; after it the loop test, and the raise that follows the loop
Attempt(o) ==
    /\ extracted = NoResult
    /\ attempts < 3
    /\ sent' = Append(sent, [prompt |-> payload, outcome |-> o])
    /\ IF o.ok
       THEN /\ extracted' = o.json
            /\ UNCHANGED <<payload, attempts, last_exc>>
       ELSE /\ last_exc' = Str(<<o.exc>>)
            /\ payload' = Reinforced(UserPrompt(detected_lang, raw_text), payload)
            /\ attempts' = attempts + 1
            /\ extracted' = IF attempts + 1 < 3 THEN NoResult
                            ELSE RuntimeError(Str(<<o.exc>>))
    /\ UNCHANGED <<defaultWeights, bulkVars, cv, jd, weights, emb, today, ticks, workers,
                   _MODEL, constructed, instances, loadFailed, pc, local, afterFail,
                   callDate, result, embedLog, parseVars, service, kpiVars, authVars, evalVars>>

\* one iteration of `while attempts < 3` of call_ollama_extract
call_ollama_extract == service = "cv" /\ \E o \in Outcomes : Attempt(o)

\* one iteration of `for attempt in range(3)` of call_ollama_extract_jd
call_ollama_extract_jd == service = "jd" /\ \E o \in Outcomes : Attempt(o)

InitExtract ==
    /\ Started({1})
    /\ NoKpi
    /\ Bootstrap
    /\ NoEval
    /\ NoBulk
    /\ Loaded
    /\ ticks = 0
    /\ today = StartDate
    /\ emb = [x \in Texts |-> 1]
    /\ weights = None
    /\ cv = MkCV({}, "missing", Base.experience)
    /\ jd = MkJD({}, "missing", Base.required_years)
    /\ parser \in {"cv", "jd"}
    /\ parsed = None
    /\ record = NoRecord
    /\ detected_lang \in Langs
    /\ raw_text = Base.jd_text
    /\ service = parser
    /\ payload = UserPrompt(detected_lang, raw_text)
    /\ attempts = 0
    /\ last_exc = None
    /\ sent = <<>>
    /\ extracted = NoResult

NextExtract ==
    \/ call_ollama_extract
    \/ call_ollama_extract_jd

SpecExtract == InitExtract /\ [][NextExtract]_vars

---------------------------------------------------------------------------
(* Properties of the extraction *)

\* the extraction has returned or raised
Extracted == extracted # NoResult
\* request i failed
Failed(i) == ~sent[i].outcome.ok

\* C24: call_ollama_extract and call_ollama_extract_jd end after at most 3
\* requests: they return the parsed JSON of the first request that succeeds
\* and make no request after it, they raise a RuntimeError carrying the last
\* failure exactly when 3 requests failed, and every request after a failure
\* is sent with the prompt followed by one reinforcement suffix
C24_ExtractionEndsWithinThreeRequests ==
    /\ Len(sent) <= 3
    /\ \A i \in DOMAIN sent : i < Len(sent) => Failed(i)
    /\ ~Extracted => Len(sent) < 3 /\ \A i \in DOMAIN sent : Failed(i)
    /\ \A i \in DOMAIN sent : ~Failed(i) => extracted = sent[i].outcome.json
    /\ (Len(sent) = 3 /\ \A i \in DOMAIN sent : Failed(i))
          <=> extracted.t = "raise"
    /\ extracted.t = "raise" => extracted = RuntimeError(Str(<<sent[3].outcome.exc>>))
    /\ \A i \in DOMAIN sent :
          sent[i].prompt = IF i = 1 THEN UserPrompt(detected_lang, raw_text)
                           ELSE Append(UserPrompt(detected_lang, raw_text), reinforcement)

\* the JD extraction returned the JSON of its third request, after two
\* failures, and that request carried one suffix
C24_Witness ==
    /\ service = "jd"
    /\ Len(sent) = 3 /\ Failed(1) /\ Failed(2) /\ ~Failed(3)
    /\ extracted = Dict("skills" :> List(<<>>))
    /\ sent[3].prompt = <<"schema", detected_lang, raw_text, reinforcement>>

---------------------------------------------------------------------------
(* kpi_chat.py: sessions over one PDF, and the questions asked of them     *)

MaxSessions == 2    \* sessions created
MaxAsks == 4        \* questions the LLM answers, over all sessions

KeyError == [t |-> "raise", exc |-> "KeyError"]
ValueError == [t |-> "raise", exc |-> "ValueError"]

\* the keywords of _is_job_related that the model's characters can spell
keywords == {<<"j", "d">>, <<"c", "v">>, <<"j", "o", "b">>, <<"r", "o", "l", "e">>}

\* _is_job_related(q)
_is_job_related(q) ==
    \E k \in keywords : Contains(Lower(Or(q, Str(<<>>)).v), k)

guidance == Str(<<"P", "o", "u", "r">>)

\* `del history[:-3]` keeping the first three pairs instead
Trimmed_KeepsFirst(pairs) ==
    IF Len(pairs) > 3 THEN SubSeq(pairs, 1, 3) ELSE pairs

\* if len(history) > 3: del history[:-3]
Trimmed(pairs) ==
    IF Len(pairs) > 3 THEN SubSeq(pairs, Len(pairs) - 2, Len(pairs)) ELSE pairs

\* the (question, answer) pair ask_question appends
Pair(question, answer) == <<Str(PyStrip(question.v)), answer>>

\* the session ids uuid4 has not given yet
FreshSids == (1..MaxSessions) \ DOMAIN _SESSIONS

\* the questions asked, the texts the LLM gives, the ids asked about
Questions ==
    {Str(<<" ", "a", "b", " ">>), Str(<<"b">>), Str(<<"a", " ", "C", "V">>)}
LlmTexts == {Str(<<"x", " ">>)}
AskedSids == 0..MaxSessions

\* how many questions were answered, over the sessions of S
RECURSIVE AnsweredCount(_)
AnsweredCount(S) ==
    IF S = {} THEN 0
    ELSE Len(answered[CHOOSE x \in S : TRUE])
            + AnsweredCount(S \ {CHOOSE x \in S : TRUE})

\* load_pdf_and_create_session(filename, file_bytes): is_pdf and small are the
\* two checks, read is what persisting and extracting come to (the chunks,
\* or Raise)
load_pdf_and_create_session(is_pdf, small, read) ==
    /\ FreshSids # {}
    /\ kpiCall' = [t |-> "call", op |-> "load", is_pdf |-> is_pdf, small |-> small]
    /\ IF ~is_pdf \/ ~small
       THEN /\ reply' = ValueError
            /\ UNCHANGED <<_SESSIONS, answered>>
       ELSE IF IsRaise(read)
       THEN /\ reply' = Raise
            /\ UNCHANGED <<_SESSIONS, answered>>
       ELSE /\ _SESSIONS' = (CHOOSE sid \in FreshSids : TRUE)
                                :> [chunks |-> read.v, history |-> <<>>] @@ _SESSIONS
            /\ answered' = (CHOOSE sid \in FreshSids : TRUE) :> <<>> @@ answered
            /\ reply' = Dict("session_id" :> Num(CHOOSE sid \in FreshSids : TRUE))
    /\ UNCHANGED <<defaultWeights, bulkVars, cv, jd, weights, emb, today, ticks, workers,
                   _MODEL, constructed, instances, loadFailed, pc, local, afterFail,
                   callDate, result, embedLog, parseVars, extractVars, authVars, evalVars>>

\* ask_question on a session that is there, for a question that is not
\* job-related: said is what KPI_LLM.invoke comes to (a text, or Raise)
Answer(session_id, question, said) ==
    IF IsRaise(said)
    THEN /\ reply' = Raise
         /\ UNCHANGED <<_SESSIONS, answered>>
    ELSE /\ AnsweredCount(DOMAIN answered) < MaxAsks
         /\ reply' = Str(PyStrip(said.v))
         /\ _SESSIONS' = [_SESSIONS EXCEPT ![session_id].history =
                            Trimmed(Append(@, Pair(question, Str(PyStrip(said.v)))))]
         /\ answered' = [answered EXCEPT ![session_id] =
                            Append(@, Pair(question, Str(PyStrip(said.v))))]

\* ask_question(session_id, question)
ask_question(session_id, question, said) ==
    /\ kpiCall' = [t |-> "call", op |-> "ask", session_id |-> session_id, question |-> question]
    /\ IF session_id \notin DOMAIN _SESSIONS
       THEN /\ reply' = KeyError
            /\ UNCHANGED <<_SESSIONS, answered>>
       ELSE IF _is_job_related(question)
       THEN /\ reply' = guidance
            /\ UNCHANGED <<_SESSIONS, answered>>
       ELSE Answer(session_id, question, said)
    /\ UNCHANGED <<defaultWeights, bulkVars, cv, jd, weights, emb, today, ticks, workers,
                   _MODEL, constructed, instances, loadFailed, pc, local, afterFail,
                   callDate, result, embedLog, parseVars, extractVars, authVars, evalVars>>

InitKpi ==
    /\ Started({1})
    /\ NoBulk
    /\ Loaded
    /\ NoParse
    /\ NoExtract
    /\ NoKpi
    /\ Bootstrap
    /\ NoEval
    /\ ticks = 0
    /\ today = StartDate
    /\ emb = [x \in Texts |-> 1]
    /\ weights = None
    /\ cv = MkCV({}, "missing", Base.experience)
    /\ jd = MkJD({}, "missing", Base.required_years)

NextKpi ==
    \/ \E is_pdf, small \in BOOLEAN, read \in {Raise, List(<<Str(<<"c">>)>>)} :
          load_pdf_and_create_session(is_pdf, small, read)
    \/ \E session_id \in AskedSids, question \in Questions, said \in LlmTexts \cup {Raise} :
          ask_question(session_id, question, said)

SpecKpi == InitKpi /\ [][NextKpi]_vars

---------------------------------------------------------------------------
(* Properties of the KPI chat sessions *)

\* the last n elements of s, all of them when it has fewer
LastOf(s, n) == IF Len(s) > n THEN SubSeq(s, Len(s) - n + 1, Len(s)) ELSE s

\* the history of every session is the last 3 of the questions answered
HistoryIsLastThree ==
    \A sid \in DOMAIN _SESSIONS :
        /\ Len(_SESSIONS[sid].history) <= 3
        /\ _SESSIONS[sid].history = LastOf(answered[sid], 3)

\* the step is a call of ask_question with an id that no session has
AskedUnknown ==
    /\ kpiCall'.t # "None"
    /\ kpiCall'.op = "ask"
    /\ kpiCall'.session_id \notin DOMAIN _SESSIONS

\* C25: after any calls of ask_question the history of a session holds at
\* most 3 question/answer pairs, those of the questions the LLM answered
\* last, in the order asked; a call with an unknown session id raises
\* KeyError and creates or changes no session
C25_HistoryIsLastThreeAnswered ==
    [][/\ HistoryIsLastThree'
       /\ AskedUnknown => reply' = KeyError /\ _SESSIONS' = _SESSIONS]_vars

\* a session was asked 4 questions that the LLM answered: its history holds
\* the last 3, the first is gone
C25_Witness ==
    \E sid \in DOMAIN _SESSIONS :
        /\ Len(answered[sid]) = 4
        /\ answered[sid][1] = <<Str(<<"b">>), Str(<<"x">>)>>
        /\ _SESSIONS[sid].history = <<answered[sid][2], answered[sid][3], answered[sid][4]>>
        /\ answered[sid][2] = <<Str(<<"a", "b">>), Str(<<"x">>)>>

\* a call with the id of no session raised KeyError
C25_UnknownSession ==
    /\ kpiCall.t # "None" /\ kpiCall.op = "ask"
    /\ kpiCall.session_id \notin DOMAIN _SESSIONS
    /\ reply = KeyError

---------------------------------------------------------------------------
(* main.py: the in-memory users and sessions, login and user management.   *)
(* An optional field of a request body is <<>> (None) or <<value>>.        *)

MaxLogins == 2      \* tokens that login gives

Nothing == <<>>
Some(x) == <<x>>
\* x if x is not None else dflt
OrElse(opt, dflt) == IF opt = Nothing THEN dflt ELSE opt[1]

\* "admin" in (rec.get("roles") or [])
IsAdmin(roles) == \E i \in DOMAIN roles : roles[i] = "admin"

\* raise HTTPException(status_code, detail)
Refused(status_code, detail) == [status |-> status_code, detail |-> detail, body |-> <<>>]
\* a handler's return value, sent with status 200
Returns(body) == [status |-> 200, detail |-> "", body |-> body]

\* _serialize_user(username, rec)
_serialize_user(username, rec) ==
    [username |-> username, roles |-> rec.roles, display_name |-> rec.display_name]

\* _require_auth(req): the username of the bearer token, or the 401; token 0
\* is a request without a bearer token
_require_auth(token) ==
    IF token = 0 \/ token \notin DOMAIN SESSIONS THEN Refused(401, "Unauthorized")
    ELSE IF SESSIONS[token] \notin DOMAIN USERS THEN Refused(401, "Unauthorized")
    ELSE Returns(SESSIONS[token])

\* _require_admin that asks for a session only
_require_admin_AnyUser(token) == _require_auth(token)

\* _require_admin(req)
_require_admin(token) ==
    IF _require_auth(token).status # 200 THEN _require_auth(token)
    ELSE IF ~IsAdmin(USERS[_require_auth(token).body].roles)
    THEN Refused(403, "Admin required")
    ELSE _require_auth(token)

\* _admin_count that does not leave `exclude` out
_admin_count_All(exclude) ==
    Cardinality({u \in DOMAIN USERS : IsAdmin(USERS[u].roles)})

\* _admin_count(exclude)
_admin_count(exclude) ==
    Cardinality({u \in DOMAIN USERS : u # exclude /\ IsAdmin(USERS[u].roles)})

\* _update_session_usernames that leaves the sessions as they are
_update_session_usernames_Kept(old_username, new_username) == SESSIONS

\* _update_session_usernames(old_username, new_username)
_update_session_usernames(old_username, new_username) ==
    [tok \in DOMAIN SESSIONS |->
        IF SESSIONS[tok] = old_username THEN new_username ELSE SESSIONS[tok]]

\* the usernames by x[0].lower(): those of the model are lower-case
NameOrder == <<"admin", "me">>
Names == {NameOrder[i] : i \in DOMAIN NameOrder}
Passwords == {"p", "q"}
RoleLists == {<<>>, <<"admin", "user">>}
Tokens == 0..MaxLogins
Present(username) == username \in DOMAIN USERS

\* what a handler leaves alone
AuthFrame ==
    UNCHANGED <<defaultWeights, bulkVars, cv, jd, weights, emb, today, ticks, workers,
                _MODEL, constructed, instances, loadFailed, pc, local, afterFail,
                callDate, result, embedLog, parseVars, extractVars, kpiVars,
                evalVars>>

\* POST /login
login(username, password) ==
    /\ IF ~Present(username) \/ USERS[username].password # password
       THEN /\ authResponse' = Refused(401, "Invalid credentials")
            /\ UNCHANGED <<SESSIONS, issued>>
       ELSE /\ issued < MaxLogins
            /\ issued' = issued + 1
            /\ SESSIONS' = (issued + 1 :> username) @@ SESSIONS
            /\ authResponse' = Returns([token |-> issued + 1,
                                        user |-> _serialize_user(username, USERS[username])])
    /\ UNCHANGED USERS
    /\ AuthFrame

\* GET /users
list_users(token) ==
    /\ authResponse' =
          IF _require_admin(token).status # 200 THEN _require_admin(token)
          ELSE Returns(List([i \in DOMAIN SelectSeq(NameOrder, Present) |->
                               _serialize_user(SelectSeq(NameOrder, Present)[i],
                                               USERS[SelectSeq(NameOrder, Present)[i]])]))
    /\ UNCHANGED <<USERS, SESSIONS, issued>>
    /\ AuthFrame

\* POST /users
create_user(token, username, password, display_name, roles) ==
    /\ IF _require_admin(token).status # 200
       THEN authResponse' = _require_admin(token) /\ UNCHANGED USERS
       ELSE IF Present(username)
       THEN authResponse' = Refused(409, "User already exists") /\ UNCHANGED USERS
       ELSE /\ USERS' = (username :>
                            [password |-> password,
                             roles |-> IF OrElse(roles, <<>>) = <<>> THEN <<"user">>
                                       ELSE roles[1],
                             display_name |-> IF OrElse(display_name, "") = "" THEN ""
                                              ELSE display_name[1]]) @@ USERS
            /\ authResponse' = Returns(_serialize_user(username, USERS'[username]))
    /\ UNCHANGED <<SESSIONS, issued>>
    /\ AuthFrame

\* the record update_user stores for rec, given the body and the new roles
Updated(rec, password, display_name, new_roles) ==
    [password |-> OrElse(password, rec.password),
     roles |-> new_roles,
     display_name |-> OrElse(display_name, rec.display_name)]

\* USERS without username
Without(username) == [u \in DOMAIN USERS \ {username} |-> USERS[u]]

\* update_user from `# apply rename if needed` on
ApplyUpdate(username, new_username, updated) ==
    /\ USERS' = IF new_username # username
                THEN (new_username :> updated) @@ Without(username)
                ELSE [USERS EXCEPT ![username] = updated]
    /\ SESSIONS' = IF new_username # username
                   THEN _update_session_usernames(username, new_username)
                   ELSE SESSIONS
    /\ authResponse' = Returns(_serialize_user(new_username, updated))

\* update_user once the target is found: new_username is
\* `body.new_username or username`, new_roles the roles given or else kept
UpdateFound(username, new_username, password, display_name, new_roles) ==
    IF new_username # username /\ Present(new_username)
    THEN /\ authResponse' = Refused(409, "Username already taken")
         /\ UNCHANGED <<USERS, SESSIONS>>
    ELSE IF ~IsAdmin(new_roles) /\ IsAdmin(USERS[username].roles)
            /\ _admin_count(username) = 0
    THEN /\ authResponse' = Refused(400, "Cannot remove last admin")
         /\ UNCHANGED <<USERS, SESSIONS>>
    ELSE ApplyUpdate(username, new_username,
                     Updated(USERS[username], password, display_name, new_roles))

\* PATCH /users/{username}
update_user(token, username, new_username, password, display_name, roles) ==
    /\ IF _require_admin(token).status # 200
       THEN authResponse' = _require_admin(token) /\ UNCHANGED <<USERS, SESSIONS>>
       ELSE IF ~Present(username)
       THEN authResponse' = Refused(404, "User not found") /\ UNCHANGED <<USERS, SESSIONS>>
       ELSE UpdateFound(username, OrElse(new_username, username), password, display_name,
                        OrElse(roles, USERS[username].roles))
    /\ UNCHANGED issued
    /\ AuthFrame

\* DELETE /users/{username}
delete_user(token, username) ==
    /\ IF _require_admin(token).status # 200
       THEN authResponse' = _require_admin(token) /\ UNCHANGED <<USERS, SESSIONS>>
       ELSE IF ~Present(username)
       THEN authResponse' = Refused(404, "User not found") /\ UNCHANGED <<USERS, SESSIONS>>
       ELSE IF IsAdmin(USERS[username].roles) /\ _admin_count(username) = 0
       THEN /\ authResponse' = Refused(400, "Cannot delete last admin")
            /\ UNCHANGED <<USERS, SESSIONS>>
       ELSE /\ USERS' = Without(username)
            /\ SESSIONS' = [tok \in {k \in DOMAIN SESSIONS : SESSIONS[k] # username} |->
                               SESSIONS[tok]]
            /\ authResponse' = Returns([ok |-> TRUE])
    /\ UNCHANGED issued
    /\ AuthFrame

\* update_self(body, req), the handler registered for PATCH /users/me.  It is
\* registered after PATCH /users/{username}, which a request for /users/me
\* matches first: such a request is update_user with username "me"
update_self(token, password, display_name) ==
    /\ IF _require_auth(token).status # 200
       THEN authResponse' = _require_auth(token) /\ UNCHANGED USERS
       ELSE /\ USERS' = [USERS EXCEPT ![SESSIONS[token]] =
                            Updated(@, password, display_name, @.roles)]
            /\ authResponse' = Returns(_serialize_user(SESSIONS[token], USERS'[SESSIONS[token]]))
    /\ UNCHANGED <<SESSIONS, issued>>
    /\ AuthFrame

InitAuth ==
    /\ Started({1})
    /\ NoBulk
    /\ Loaded
    /\ NoParse
    /\ NoExtract
    /\ NoKpi
    /\ Bootstrap
    /\ NoEval
    /\ ticks = 0
    /\ today = StartDate
    /\ emb = [x \in Texts |-> 1]
    /\ weights = None
    /\ cv = MkCV({}, "missing", Base.experience)
    /\ jd = MkJD({}, "missing", Base.required_years)

\* the optional fields of the bodies
OptNames == {Nothing} \cup {Some(n) : n \in Names}
OptPasswords == {Nothing, Some("q")}
OptRoles == {Nothing} \cup {Some(r) : r \in RoleLists}


NextAuth ==
    \/ \E username \in Names, password \in Passwords : login(username, password)
    \/ \E token \in Tokens : list_users(token)
    \/ \E token \in Tokens, username \in Names, roles \in OptRoles :
          create_user(token, username, "p", Nothing, roles)
    \/ \E token \in Tokens, username \in Names, new_username \in OptNames, roles \in OptRoles :
          update_user(token, username, new_username, Nothing, Nothing, roles)
    \/ \E token \in Tokens, username \in Names : delete_user(token, username)
    \/ \E token \in Tokens, password \in OptPasswords : update_self(token, password, Nothing)

SpecAuth == InitAuth /\ [][NextAuth]_vars

---------------------------------------------------------------------------
(* The last admin.                                                         *)

\* the user store holds a user with the admin role
AdminRemains == \E u \in DOMAIN USERS : IsAdmin(USERS[u].roles)

\* username is a user, and the only one with the admin role
OnlyAdmin(username) ==
    /\ Present(username)
    /\ \A u \in DOMAIN USERS : IsAdmin(USERS[u].roles) <=> u = username

\* an admin's request to delete the only admin
DeletesLastAdmin(token, username) ==
    /\ _require_admin(token).status = 200
    /\ OnlyAdmin(username)

\* an admin's request to give the only admin roles without "admin", under a
\* name that is free (a taken name is refused with 409 before)
DemotesLastAdmin(token, username, new_username, roles) ==
    /\ _require_admin(token).status = 200
    /\ OnlyAdmin(username)
    /\ roles # Nothing /\ ~IsAdmin(roles[1])
    /\ OrElse(new_username, username) \in {username} \cup (Names \ DOMAIN USERS)

\* the request was refused with 400, users and sessions are as before
RefusedUnchanged == authResponse'.status = 400 /\ UNCHANGED <<USERS, SESSIONS>>

\* C27: from the bootstrap state with one admin, after any create_user,
\* update_user (renames and role changes included), delete_user and
\* update_self requests the user store holds a user with the admin role; a
\* request that would remove the last admin is refused with 400 and leaves
\* users and sessions unchanged (a step that is not such a refusal is no
\* admin's request to delete the only admin or to take its admin role)
C27_LastAdminStays ==
    /\ []AdminRemains
    /\ [][\A token \in Tokens, username \in Names :
             DeletesLastAdmin(token, username) /\ ~RefusedUnchanged =>
                 /\ ~delete_user(token, username)
                 /\ \A new_username \in OptNames, roles \in OptRoles :
                       DemotesLastAdmin(token, username, new_username, roles) =>
                           ~update_user(token, username, new_username, Nothing, Nothing,
                                        roles)]_vars

\* the admin was renamed to "me", a second user "admin" without the admin
\* role was created, and taking the admin role from "me" was refused
C27_Witness ==
    /\ authResponse = Refused(400, "Cannot remove last admin")
    /\ OnlyAdmin("me")
    /\ Present("admin")

---------------------------------------------------------------------------
(* Sessions and the users they belong to.                                  *)

\* every session token maps to a username of the user store
SessionsOfUsers == \A tok \in DOMAIN SESSIONS : SESSIONS[tok] \in DOMAIN USERS

\* the tokens of username
TokensOf(username) == {tok \in DOMAIN SESSIONS : SESSIONS[tok] = username}

\* the step removed the tokens of username and no other
TokensRemoved(username) ==
    /\ DOMAIN SESSIONS' = DOMAIN SESSIONS \ TokensOf(username)
    /\ \A tok \in DOMAIN SESSIONS' : SESSIONS'[tok] = SESSIONS[tok]

\* the step re-pointed the tokens of username to new_username and no other
TokensRepointed(username, new_username) ==
    /\ DOMAIN SESSIONS' = DOMAIN SESSIONS
    /\ \A tok \in DOMAIN SESSIONS :
          SESSIONS'[tok] = IF tok \in TokensOf(username) THEN new_username
                           ELSE SESSIONS[tok]

\* a token that the step keeps belongs to the same user after it: the
\* requests of NextAuth give no display_name, so that the bootstrap user
\* keeps the display name no created user has
SameUser ==
    \A tok \in DOMAIN SESSIONS \cap DOMAIN SESSIONS' :
        /\ SESSIONS[tok] \in DOMAIN USERS
        /\ SESSIONS'[tok] \in DOMAIN USERS'
        /\ USERS'[SESSIONS'[tok]].display_name = USERS[SESSIONS[tok]].display_name

\* C28: after any login, create_user, update_user (renames included) and
\* delete_user requests every session token maps to a username of the user
\* store; deleting a user removes all of that user's tokens, renaming a user
\* re-points all of that user's tokens to the new name (a step that does
\* otherwise is no delete_user or update_user answered with 200), and a
\* token that stays never comes to belong to another user
C28_TokensFollowTheirUser ==
    /\ []SessionsOfUsers
    /\ [][/\ SameUser
          /\ \A username \in Names :
                authResponse'.status = 200 =>
                    /\ ~(username \notin DOMAIN USERS' /\ TokensRemoved(username)) =>
                           \A token \in Tokens : ~delete_user(token, username)
                    /\ \A new_username \in OptNames :
                          ~TokensRepointed(username, OrElse(new_username, username)) =>
                              \A token \in Tokens, roles \in OptRoles :
                                  ~update_user(token, username, new_username, Nothing,
                                               Nothing, roles)]_vars

\* the bootstrap user was renamed to "me", a new user took the name "admin",
\* and both have a token: that of each maps to its own name
C28_Witness ==
    /\ Present("me") /\ USERS["me"].display_name = "Admin"
    /\ Present("admin") /\ USERS["admin"].display_name = ""
    /\ TokensOf("me") # {}
    /\ TokensOf("admin") # {}

---------------------------------------------------------------------------
(* Requests without the right to make them.                                *)

\* the request carries no bearer token (0) or a token that no session has
NoSession(token) == token = 0 \/ token \notin DOMAIN SESSIONS

\* the token is that of a user without the admin role
NotAdmin(token) ==
    /\ ~NoSession(token)
    /\ SESSIONS[token] \in DOMAIN USERS
    /\ ~IsAdmin(USERS[SESSIONS[token]].roles)

\* what a user-management request with this token must be answered with:
\* 401, 403, or nothing that is decided here (0)
Expected(token) == IF NoSession(token) THEN 401 ELSE IF NotAdmin(token) THEN 403 ELSE 0

\* the request comes without the right to manage users
Unauthorized(token) == Expected(token) # 0

\* the step answered a request with this token as Expected and changed
\* neither store
Rejected(token) ==
    authResponse'.status = Expected(token) /\ UNCHANGED <<USERS, SESSIONS>>

\* the username is unknown or the password is not the stored one
BadLogin(username, password) == ~Present(username) \/ USERS[username].password # password

\* the step answered 401 and changed neither store
LoginRefused == authResponse'.status = 401 /\ UNCHANGED <<USERS, SESSIONS>>

\* C30: a list, create, update or delete user request without bearer token
\* or with an unknown token is refused with 401, one with the token of a
\* user without the admin role with 403, and neither changes the user store
\* or the session store; a login with an unknown username or a wrong
\* password is refused with 401 and creates no session (a step that is not
\* such a refusal is none of these requests)
C30_UnauthorizedChangesNothing ==
    [][/\ \A token \in Tokens :
             Unauthorized(token) /\ ~Rejected(token) =>
                 /\ ~list_users(token)
                 /\ \A username \in Names :
                       /\ ~delete_user(token, username)
                       /\ \A roles \in OptRoles :
                             /\ ~create_user(token, username, "p", Nothing, roles)
                             /\ \A new_username \in OptNames :
                                   ~update_user(token, username, new_username, Nothing,
                                                Nothing, roles)
       /\ \A username \in Names, password \in Passwords :
             BadLogin(username, password) /\ ~LoginRefused => ~login(username, password)]_vars

\* "me" was created without the admin role and logged in, and a request of
\* "me" to manage users was refused with 403
C30_Witness ==
    /\ authResponse = Refused(403, "Admin required")
    /\ \E tok \in DOMAIN SESSIONS : SESSIONS[tok] = "me"
    /\ Present("me") /\ ~IsAdmin(USERS["me"].roles)

---------------------------------------------------------------------------
(* evaluator.py: the parsing evaluator.  Its _normspace is the code of      *)
(* matcher._normspace.  Weights are in tenths, similarities are rationals.  *)

CV_WEIGHTS ==
    [name |-> 10, title |-> 12, skills |-> 15, experience |-> 10, education |-> 6,
     certifications |-> 7]
JD_WEIGHTS == [title |-> 12, skills |-> 15, certifications |-> 7, experience_years |-> 6]

EXCELLENT_TH == Rat(85, 100)
GOOD_TH == Rat(70, 100)

\* _status(score)
_status(score) ==
    IF RatLe(EXCELLENT_TH, score) THEN "excellent"
    ELSE IF RatLe(GOOD_TH, score) THEN "good"
    ELSE "bad"

\* the same number in lowest terms
RECURSIVE Gcd(_, _)
Gcd(a, b) == IF b = 0 THEN a ELSE Gcd(b, a % b)
RatNorm(a) == IF a.n = 0 THEN Rat(0, 1) ELSE Rat(a.n \div Gcd(a.n, a.d), a.d \div Gcd(a.n, a.d))

\* a unit vector that m.encode gave for a text
Vec(text) == [t |-> "vec", of |-> text]

\* the similarities the model's encoders give, and the encoders
SimValues == <<Rat(1, 4), Rat(2, 3), Rat(11, 12)>>
Encoders == 0 .. 2
\* float(np.dot(a, b)) for the vectors of the encoder enc
np_dot(enc, a, b) == SimValues[((Len(a.of) + Len(b.of) + enc) % Len(SimValues)) + 1]

\* evaluator._embed(text): None if the text is too short
evaluator_embed(text) ==
    IF Len(_normspace(text).v) < 3 THEN None ELSE Vec(_normspace(text).v)

\* evaluator._cos(a, b)
evaluator_cos(enc, a, b) == IF a = None \/ b = None THEN Rat(0, 1) ELSE np_dot(enc, a, b)

\* _truncate_context(raw_text, max_chars)
_truncate_context(raw, max_chars) ==
    IF Len(Or(raw, Str(<<>>)).v) > max_chars
    THEN Str(SubSeq(Or(raw, Str(<<>>)).v, 1, max_chars))
    ELSE Or(raw, Str(<<>>))

\* _normspace(d.get(key, ""))
Get(d, key) == _normspace(DictGet(d, key, Str(<<>>))).v
\* _normspace(f"{a} {b}".strip())
Spaced(a, b) == _normspace(Str(PyStrip(a \o <<" ">> \o b))).v
\* ", ".join(texts)
RECURSIVE CommaJoined(_)
CommaJoined(texts) ==
    IF texts = <<>> THEN <<>>
    ELSE IF Len(texts) = 1 THEN texts[1]
    ELSE texts[1] \o <<",", " ">> \o CommaJoined(Tail(texts))

\* out[name] = strings, when there are any
Field(name, strings) == IF strings = <<>> THEN <<>> ELSE name :> strings
\* [text] if the text is not empty
One(text) == IF text = <<>> THEN <<>> ELSE <<text>>


\* ", ".join(sorted({_normspace(s).lower() for s in skills if _normspace(s)}))
SkillsJoined(skills) ==
    CommaJoined(Sorted({Lower(_normspace(skills[k]).v) : k \in DOMAIN skills} \ {<<>>}))
\* ", ".join(sorted({_normspace(c) for c in certs if _normspace(c)}))
CertsJoined(certs) ==
    CommaJoined(Sorted({_normspace(certs[k]).v : k \in DOMAIN certs} \ {<<>>}))

\* `if len(s) >= 3`
AtLeast3(s) == Len(s) >= 3
\* the texts "<a> <b>" of the entries that are at least 3 characters long
PairTexts(entries, a, b) ==
    SelectSeq([i \in DOMAIN entries |-> Spaced(Get(entries[i], a), Get(entries[i], b))],
              AtLeast3)

\* _cv_field_strings(parsed)
_cv_field_strings(p) ==
    Field("name", One(Spaced(Get(BasicsOf(p, "profile"), "first_name"),
                             Get(BasicsOf(p, "profile"), "last_name"))))
    @@ Field("title", One(Get(BasicsOf(p, "profile"), "current_title")))
    @@ Field("skills", One(SkillsJoined(ListOf(p, "skills"))))
    @@ Field("experience", PairTexts(ListOf(p, "experience"), "title", "company"))
    @@ Field("education",
             One(CommaJoined(PairTexts(ListOf(p, "education"), "degree", "school"))))
    @@ Field("certifications", One(CertsJoined(ListOf(p, "certifications"))))

\* str(n) for an int n >= 0
Digits == <<"0", "1", "2", "3", "4", "5", "6", "7", "8", "9">>
RECURSIVE PyStr(_)
PyStr(n) == IF n < 10 THEN <<Digits[n + 1]>> ELSE PyStr(n \div 10) \o <<Digits[(n % 10) + 1]>>

\* out["experience_years"]: [str(int(yrs))] when yrs is an int >= 0 or the
\* text of one
YearsText(yrs) ==
    IF yrs.t = "int" /\ yrs.v >= 0 THEN <<PyStr(yrs.v)>>
    ELSE IF yrs.t = "str" /\ IsDigits(PyStrip(yrs.v)) THEN <<PyStr(IntOf(PyStrip(yrs.v)))>>
    ELSE <<>>

\* _jd_field_strings(parsed)
_jd_field_strings(p) ==
    Field("title", One(Get(BasicsOf(p, "job_profile"), "title")))
    @@ Field("skills", One(SkillsJoined(ListOf(p, "skills"))))
    @@ Field("certifications", One(CertsJoined(ListOf(p, "required_certifications"))))
    @@ Field("experience_years", YearsText(DictGet(p, "experience_required_years", None)))

\* the insertion order of the field builders' dicts
FieldOrder ==
    <<"name", "title", "skills", "experience", "education", "certifications",
      "experience_years">>

\* float(np.mean(sims)) of the similarities of the strings with the context
RECURSIVE SimSum(_, _, _)
SimSum(enc, strings, context_vec) ==
    IF strings = <<>> THEN Rat(0, 1)
    ELSE RatNorm(RatAdd(evaluator_cos(enc, evaluator_embed(Str(Head(strings))), context_vec),
                        SimSum(enc, Tail(strings), context_vec)))
MeanSim(enc, strings, context_vec) ==
    RatNorm(RatDiv(SimSum(enc, strings, context_vec), Len(strings)))

\* float(weights.get(field, 0.0))
WeightOf(wts, field) == IF field \in DOMAIN wts THEN wts[field] ELSE 0

\* `if w > 0.0` that also asks for a score above 0
Counted_Scored(w, score) == w > 0 /\ score.n > 0

\* `if w > 0.0`: the field adds to total_w and acc
Counted(w, score) == w > 0

\* the fields the loop of _score_fields does not skip
WithStrings(field_map) == {f \in DOMAIN field_map : field_map[f] # <<>>}

\* the loop of _score_fields over the remaining fields: total_w and acc
RECURSIVE ScoreLoop(_, _, _, _, _, _, _)
ScoreStep(enc, fields, field_map, context_vec, wts, sums, score) ==
    IF Counted(WeightOf(wts, Head(fields)), score)
    THEN ScoreLoop(enc, Tail(fields), field_map, context_vec, wts,
                   sums.total_w + WeightOf(wts, Head(fields)),
                   RatNorm(RatAdd(sums.acc, RatScale(WeightOf(wts, Head(fields)), score))))
    ELSE ScoreLoop(enc, Tail(fields), field_map, context_vec, wts, sums.total_w, sums.acc)
ScoreLoop(enc, fields, field_map, context_vec, wts, total_w, acc) ==
    IF fields = <<>> THEN [total_w |-> total_w, acc |-> acc]
    ELSE IF Head(fields) \notin WithStrings(field_map)
    THEN ScoreLoop(enc, Tail(fields), field_map, context_vec, wts, total_w, acc)
    ELSE ScoreStep(enc, fields, field_map, context_vec, wts,
                   [total_w |-> total_w, acc |-> acc],
                   MeanSim(enc, field_map[Head(fields)], context_vec))

\* field_scores[field]
FieldScore(wts, field, score) ==
    [score |-> Round4(score), weight |-> WeightOf(wts, field), status |-> _status(score)]

\* (acc / total_w) if total_w > 0 else 0.0
GlobalOf(sums) == IF sums.total_w > 0 THEN RatNorm(RatDiv(sums.acc, sums.total_w)) ELSE Rat(0, 1)

\* _score_fields(field_map, context_vec, weights) and the dict that
\* evaluate_parsing makes of it
_score_fields(enc, field_map, context_vec, wts) ==
    [field_scores |-> [f \in WithStrings(field_map) |->
                          FieldScore(wts, f, MeanSim(enc, field_map[f], context_vec))],
     global_score |-> Round4(GlobalOf(ScoreLoop(enc, FieldOrder, field_map, context_vec, wts,
                                                0, Rat(0, 1)))),
     global_status |-> _status(GlobalOf(ScoreLoop(enc, FieldOrder, field_map, context_vec,
                                                  wts, 0, Rat(0, 1))))]

\* kind.lower() of the model's kinds
KindLower(kind) == IF kind = "CV" THEN "cv" ELSE kind

\* the longest context that is embedded
ContextChars == 15000

\* evaluate_parsing(kind, parsed_json, raw_text): the dict, or ValueError
evaluate_parsing(enc, kind, parsed_json, raw) ==
    IF KindLower(kind) = "cv"
    THEN Dict(_score_fields(enc, _cv_field_strings(Or(parsed_json, EmptyDict)),
                            evaluator_embed(_truncate_context(raw, ContextChars)),
                            CV_WEIGHTS))
    ELSE IF KindLower(kind) = "jd"
    THEN Dict(_score_fields(enc, _jd_field_strings(Or(parsed_json, EmptyDict)),
                            evaluator_embed(_truncate_context(raw, ContextChars)),
                            JD_WEIGHTS))
    ELSE ValueError

---------------------------------------------------------------------------
(* The evaluator's inputs: normalised records, raw texts, kinds.           *)

EvalFirstNames == {Str(<<>>), Str(<<"A", "b">>)}
EvalLastNames == {Str(<<>>), Str(<<" ", "C">>)}
\* no title, one of 2 characters, one of 3
EvalTitles == {None, Str(<<"a", "b">>), Str(<<"a", " ", "b">>)}
\* no skill, a text of 1 character, a text of 4
EvalSkills ==
    {List(<<>>), List(<<Str(<<"c">>)>>), List(<<Str(<<"B">>), Str(<<"a">>), Str(<<"b">>)>>)}
\* entries whose text has 2, 4 and 5 characters
ShortEntry == Dict("title" :> Str(<<"a", "b">>))
LongEntry == Dict("title" :> Str(<<"a", "b">>) @@ "company" :> Str(<<"c">>))
OtherEntry == Dict("title" :> Str(<<"x">>) @@ "company" :> Str(<<"a", "b", "c">>))
EvalExperience ==
    {<<>>, <<ShortEntry>>, <<LongEntry>>, <<ShortEntry, LongEntry>>, <<LongEntry, OtherEntry>>}
EvalEducation ==
    {<<>>, <<Dict("degree" :> Str(<<"a">>))>>,
     <<Dict("degree" :> Str(<<"a">>) @@ "school" :> Str(<<"b", "c">>))>>}
EvalCerts == {List(<<>>), List(<<Str(<<"A">>)>>)}
EvalYears == {None, Num(0), Num(7), Num(100)}
\* no text, a text of 1 character once normalised, a text of 3
EvalRawTexts == {Str(<<>>), Str(<<"a", " ", " ">>), Str(<<" ", "a", "\t", "b", " ">>)}

EvalCV(first, last, title, skills, experience, education, certs) ==
    Dict([profile |-> Dict("basics" :> Dict([first_name |-> first, last_name |-> last,
                                             current_title |-> title])),
          skills |-> skills,
          experience |-> List(experience),
          education |-> List(education),
          certifications |-> certs])
EvalCVs ==
    {EvalCV(first, last, title, skills, experience, education, certs) :
        first \in EvalFirstNames, last \in EvalLastNames, title \in EvalTitles,
        skills \in EvalSkills, experience \in EvalExperience, education \in EvalEducation,
        certs \in EvalCerts}

EvalJD(title, skills, certs, yrs) ==
    Dict([job_profile |-> Dict("basics" :> Dict([title |-> title])),
          skills |-> skills,
          required_certifications |-> certs,
          experience_required_years |-> yrs])
EvalJDs ==
    {EvalJD(title, skills, certs, yrs) :
        title \in EvalTitles, skills \in EvalSkills, certs \in EvalCerts, yrs \in EvalYears}

\* a call of evaluate_parsing
EvalCallOf(kind, parsed_json, raw) ==
    [t |-> "call", kind |-> kind, parsed_json |-> parsed_json, raw_text |-> raw]
EvalCalls ==
    {EvalCallOf("cv", p, raw) : p \in EvalCVs, raw \in EvalRawTexts}
    \cup {EvalCallOf("jd", p, raw) : p \in EvalJDs, raw \in EvalRawTexts}
    \cup {EvalCallOf(kind, None, Str(<<>>)) : kind \in {"CV", "x"}}

InitEval ==
    /\ Started({1})
    /\ NoBulk
    /\ Loaded
    /\ NoParse
    /\ NoExtract
    /\ NoKpi
    /\ Bootstrap
    /\ ticks = 0
    /\ today = StartDate
    /\ emb = [x \in Texts |-> 1]
    /\ weights = None
    /\ cv = MkCV({}, "missing", Base.experience)
    /\ jd = MkJD({}, "missing", Base.required_years)
    /\ encoder \in Encoders
    /\ evalCall \in EvalCalls
    /\ evaluation = NoResult

\* the call returns or raises
EvaluateParsing ==
    /\ evaluation = NoResult
    /\ evaluation' = evaluate_parsing(encoder, evalCall.kind, evalCall.parsed_json,
                                      evalCall.raw_text)
    /\ UNCHANGED <<defaultWeights, bulkVars, cv, jd, weights, emb, today, ticks, workers,
                   _MODEL, constructed, instances, loadFailed, pc, local, afterFail,
                   callDate, result, embedLog, parseVars, extractVars, kpiVars, authVars,
                   encoder, evalCall>>

NextEval == EvaluateParsing

SpecEval == InitEval /\ [][NextEval]_vars

---------------------------------------------------------------------------
(* The global score of an evaluation.                                      *)

\* the call returned an evaluation
Evaluated == evaluation.t = "dict"

CallRecord == Or(evalCall.parsed_json, EmptyDict)
CallWeights == IF KindLower(evalCall.kind) = "cv" THEN CV_WEIGHTS ELSE JD_WEIGHTS
\* the raw text as it is compared
Context == _normspace(evalCall.raw_text).v

\* the texts of the entries of a list that have at least `least` characters
EntryTexts(entries, a, b, least) ==
    SelectSeq([i \in DOMAIN entries |-> Spaced(Get(entries[i], a), Get(entries[i], b))],
              LAMBDA text : Len(text) >= least)

\* the texts a CV holds for each field, a field without text left out; an
\* entry of experience or education counts from `least` characters on
CvTexts(p, least) ==
    Field("name", One(Spaced(Get(BasicsOf(p, "profile"), "first_name"),
                             Get(BasicsOf(p, "profile"), "last_name"))))
    @@ Field("title", One(Get(BasicsOf(p, "profile"), "current_title")))
    @@ Field("skills", One(SkillsJoined(ListOf(p, "skills"))))
    @@ Field("experience", EntryTexts(ListOf(p, "experience"), "title", "company", least))
    @@ Field("education",
             One(CommaJoined(EntryTexts(ListOf(p, "education"), "degree", "school", least))))
    @@ Field("certifications", One(CertsJoined(ListOf(p, "certifications"))))

\* the texts of the fields that are present in the record of the call
PresentTexts(least) ==
    IF KindLower(evalCall.kind) = "cv" THEN CvTexts(CallRecord, least)
    ELSE _jd_field_strings(CallRecord)

\* what a text scores: 0.0 when it or the raw text is shorter than 3
\* characters, else its similarity with the raw text
TextScore(text) ==
    IF Len(text) < 3 \/ Len(Context) < 3 THEN Rat(0, 1)
    ELSE np_dot(encoder, Vec(text), Vec(Context))

RECURSIVE TextScores(_)
TextScores(texts) ==
    IF texts = <<>> THEN Rat(0, 1)
    ELSE RatNorm(RatAdd(TextScore(Head(texts)), TextScores(Tail(texts))))
\* what a field scores: the mean over its texts
MeanScore(texts) == RatNorm(RatDiv(TextScores(texts), Len(texts)))

\* the field is present and has weight > 0
Weighted(texts, f) == f \in DOMAIN texts /\ WeightOf(CallWeights, f) > 0

\* the sums of weight and of weight * score over the weighted fields
RECURSIVE Denominator(_, _)
Denominator(fields, texts) ==
    IF fields = <<>> THEN 0
    ELSE (IF Weighted(texts, Head(fields)) THEN WeightOf(CallWeights, Head(fields)) ELSE 0)
         + Denominator(Tail(fields), texts)
RECURSIVE Numerator(_, _)
Numerator(fields, texts) ==
    IF fields = <<>> THEN Rat(0, 1)
    ELSE IF Weighted(texts, Head(fields))
    THEN RatNorm(RatAdd(RatScale(WeightOf(CallWeights, Head(fields)),
                                 MeanScore(texts[Head(fields)])),
                        Numerator(Tail(fields), texts)))
    ELSE Numerator(Tail(fields), texts)

\* the weighted mean in ten-thousandths, 0 when no weighted field is present
WeightedMean(texts) ==
    IF Denominator(FieldOrder, texts) = 0 THEN 0
    ELSE Round4(RatDiv(Numerator(FieldOrder, texts), Denominator(FieldOrder, texts)))

\* the evaluation is that of these present fields: each is scored and
\* carries its weight, a text that is shorter than 3 characters or set
\* against a raw text shorter than 3 characters scores 0.0, and the global
\* score is the weighted mean
EvaluationOf(texts) ==
    /\ DOMAIN evaluation.v.field_scores = DOMAIN texts
    /\ \A f \in DOMAIN texts :
          /\ evaluation.v.field_scores[f].weight = WeightOf(CallWeights, f)
          /\ evaluation.v.field_scores[f].score = Round4(MeanScore(texts[f]))
    /\ evaluation.v.global_score = WeightedMean(texts)

\* C26 as stated: every field of the record that holds a text is present,
\* whatever the length of the text
C26_GlobalScoreOverFieldsWithText == Evaluated => EvaluationOf(PresentTexts(1))

\* C26: the global score is the weighted mean (to 4 decimals) over the fields
\* that are present and have weight > 0; an absent field adds to neither
\* sum, a present field whose text is shorter than 3 characters, or that is
\* set against a raw text shorter than 3 characters, scores 0.0 and counts
\* its weight, and the global score is 0.0 when no weighted field is present.
\* Experience and education are present when an entry has a text of at
\* least 3 characters, and only such entries are scored
C26_GlobalScoreIsWeightedMean == Evaluated => EvaluationOf(PresentTexts(3))

\* a CV whose title has 2 characters and whose only experience entry has 2:
\* the title scores 0.0 with its weight, experience is left out, and the
\* skills lift the global score above 0
C26_Witness ==
    /\ Evaluated
    /\ evalCall.kind = "cv"
    /\ ListOf(CallRecord, "experience") = <<ShortEntry>>
    /\ DOMAIN evaluation.v.field_scores = {"title", "skills"}
    /\ evaluation.v.field_scores["title"].score = 0
    /\ evaluation.v.field_scores["skills"].score > 0
    /\ evaluation.v.global_score = WeightedMean(PresentTexts(3))
    /\ evaluation.v.global_score > 0

====
